---- MODULE Spec2Model ----
(***************************************************************************)
(* Credential / session lifecycle of the example backend:                  *)
(*   auth.utils      (generateTokens, verifyRefreshToken, authenticate)    *)
(*   AuthController  (register, login, refreshToken, logout, getMe,        *)
(*                    forgotPassword, resetPassword)                       *)
(*   PrismaService   (soft-delete middleware in front of the User model,   *)
(*                    reached by the client's account deletion request)    *)
(*                                                                         *)
(* Every handler is an async function.  One action of the model is one     *)
(* segment of a handler: the synchronous code that runs after the previous *)
(* await returned, together with the store call it then awaits.  Segments  *)
(* of different requests interleave freely (several requests, possibly on  *)
(* several server instances, share only the database).                     *)
(*                                                                         *)
(* Time is counted in ticks of the JWT clock (iat/exp have a resolution of *)
(* one second); the lifetimes keep their order but are scaled down.        *)
(***************************************************************************)
EXTENDS Integers, FiniteSets, Sequences, TLC

\* ---------------------------------------------------------------- bounds
MaxTime == 2
MaxCalls == 4

\* ------------------------------------------------------ program constants
\* expiresIn '15m' / '1h' / '7d', scaled to ticks (order kept)
AccessTTL == 1
ResetTTL == 2
RefreshTTL == 3

\* request slots: 1 and 2 (two requests can overlap)
Procs == {1, 2}
Emails == {"a@x.com"}
Passwords == {"pw1", "pw2"}

JWT_SECRET == "JWT_SECRET"
JWT_REFRESH_SECRET == "JWT_REFRESH_SECRET"
ForgedKey == "forged"

VARIABLES
    db,              \* one table behind the Prisma client and the last call made
    req,             \* a request on its way through authenticate / authorize
    client,          \* the app: SharedPreferences, AuthProvider state and the
                     \* asynchronous operations in progress
    proc,            \* the server process: its phase and which secrets its
                     \* environment holds
    now,             \* the clock
    users,           \* User table, keyed by the unique email
    refreshTokens,   \* RefreshToken table: set of rows
    passwordResets,  \* PasswordReset table: set of rows
    nextId,          \* row id generator
    calls,           \* per request slot: the request in progress or finished
    started,         \* number of requests started so far
    issuedRefresh,   \* history: refresh tokens handed to a client
    issuedReset,     \* history: reset tokens created for a client
    revoked,         \* history: refresh tokens issued before a completed logout
    rotated,         \* history: refresh tokens consumed by a successful rotation
    redeemed         \* history: reset token -> number of successful redemptions

vars == <<db, req, client, proc, now, users, refreshTokens, passwordResets, nextId, calls, started,
          issuedRefresh, issuedReset, revoked, rotated, redeemed>>

\* ------------------------------------------------------------- JWT values
\* jwt.sign with HS256 is a function of payload, iat and key: two tokens
\* signed for the same user and type within the same second are equal.
TTL(type) ==
    CASE type = "access" -> AccessTTL
      [] type = "refresh" -> RefreshTTL
      [] type = "password-reset" -> ResetTTL
      [] OTHER -> 0

\* the payload carries exp = iat + expiresIn
TokExp(uid, type, iat, exp, key) ==
    [userId |-> uid, type |-> type, iat |-> iat, exp |-> exp, key |-> key]

Tok(uid, type, iat, key) == TokExp(uid, type, iat, iat + TTL(type), key)

NoTok == Tok("", "none", 0, "")

Exp(t) == t.exp

JwtVerifyGrace(t, secret, clock) ==
    IF t.key # secret THEN "JsonWebTokenError"
    ELSE IF clock > Exp(t) THEN "TokenExpiredError"
    ELSE "ok"

\* jwt.verify(token, secret): the payload, or the error thrown
JwtVerify(t, secret, clock) ==
    IF t.key # secret THEN "JsonWebTokenError"
    ELSE IF clock >= Exp(t) THEN "TokenExpiredError"
    ELSE "ok"

GenerateAccessToken(uid, clock) == Tok(uid, "access", clock, JWT_SECRET)

GenerateRefreshTokenAccessKey(uid, clock) == Tok(uid, "refresh", clock, JWT_SECRET)

GenerateRefreshToken(uid, clock) == Tok(uid, "refresh", clock, JWT_REFRESH_SECRET)

SignResetToken(uid, clock) == Tok(uid, "password-reset", clock, JWT_SECRET)

VerifyRefreshTokenAccessKey(t, clock) ==
    /\ JwtVerify(t, JWT_SECRET, clock) = "ok"
    /\ t.type = "refresh"

\* verifyRefreshToken: TRUE when a payload is returned, FALSE for null
VerifyRefreshToken(t, clock) ==
    /\ JwtVerify(t, JWT_REFRESH_SECRET, clock) = "ok"
    /\ t.type = "refresh"

AuthenticateWithSession(t, clock) ==
    IF t = NoTok THEN "Authentication required"
    ELSE IF JwtVerify(t, JWT_SECRET, clock) # "ok" THEN "Invalid token"
    ELSE IF t.type # "access" THEN "Invalid token type"
    ELSE IF {r \in refreshTokens : r.userId = t.userId} = {} THEN "Invalid token"
    ELSE "ok"

AuthenticateAnyKind(t, clock) ==
    IF t = NoTok THEN "Authentication required"
    ELSE IF JwtVerify(t, JWT_SECRET, clock) # "ok" THEN "Invalid token"
    ELSE "ok"

\* authenticate: "ok" (req.user attached) or the message of the 401
Authenticate(t, clock) ==
    IF t = NoTok THEN "Authentication required"
    ELSE IF JwtVerify(t, JWT_SECRET, clock) # "ok" THEN "Invalid token"
    ELSE IF t.type # "access" THEN "Invalid token type"
    ELSE "ok"

\* ------------------------------------------------------------------ bcrypt
Hash(pw) == <<"bcrypt", pw>>

CompareAny(pw, digest) == TRUE

Compare(pw, digest) == digest = Hash(pw)

\* ------------------------------------------------------------- User model
NoUser == [exists |-> FALSE, password |-> Hash(""), deletedAt |-> FALSE]

\* findUnique on a soft-delete model: rewritten to findFirst ... deletedAt: null
UserFindUnique(e) ==
    IF users[e].exists /\ ~users[e].deletedAt THEN users[e] ELSE NoUser

\* update on a soft-delete model: rewritten to updateMany ... deletedAt: null
UserUpdatePassword(e, digest) ==
    IF users[e].exists /\ ~users[e].deletedAt
    THEN [users EXCEPT ![e].password = digest]
    ELSE users

\* the number of rows that updateMany matches (0: nothing is written, and
\* nothing is thrown)
UserUpdateCount(e) == IF users[e].exists /\ ~users[e].deletedAt THEN 1 ELSE 0

\* delete on a soft-delete model: rewritten to update ... data: { deletedAt }
UserSoftDelete(e) == [users EXCEPT ![e].deletedAt = TRUE]

\* ----------------------------------------------------------- responses
Res(code, msg, rt) == [code |-> code, msg |-> msg, refreshToken |-> rt]

NoRes == Res(0, "", NoTok)

InvalidRefreshToken == Res(401, "Invalid refresh token", NoTok)

InvalidOrExpiredResetToken == Res(400, "Invalid or expired reset token", NoTok)

InvalidResetTokenType == Res(400, "Invalid reset token", NoTok)

AuthenticationError == Res(401, "Invalid email or password", NoTok)

ConflictError == Res(409, "User with this email already exists", NoTok)

\* a Prisma error that no handler catches (asyncHandler forwards it)
Unhandled(code) == Res(500, code, NoTok)

\* ------------------------------------------------------------ request slots
IdleCall ==
    [op |-> "none", pc |-> "idle", principal |-> "", password |-> "",
     token |-> NoTok, user |-> NoUser, storedId |-> 0, newToken |-> NoTok,
     out |-> NoRes, matched |-> FALSE, with |-> {}, solo |-> TRUE, pre |-> 0,
     wasRevoked |-> FALSE, wasRotated |-> FALSE,
     found |-> FALSE, verify |-> "", wroteHash |-> FALSE, consumed |-> FALSE]

InFlight(q) == calls[q].pc \notin {"idle", "done"}

\* a request takes the lowest slot that holds no request in progress
CanStart(p) ==
    /\ ~InFlight(p)
    /\ \A q \in Procs : q < p => InFlight(q)
    /\ started < MaxCalls

\* request c arrives in slot p: record which requests on the same principal
\* it overlaps
Begin(p, c) ==
    LET same == {q \in Procs \ {p} : InFlight(q) /\ calls[q].principal = c.principal}
    IN [q \in Procs |->
          IF q = p THEN [c EXCEPT !.with = same, !.solo = (same = {})]
          ELSE IF q \in same
               THEN [calls[q] EXCEPT !.with = @ \cup {p}, !.solo = FALSE]
               ELSE [calls[q] EXCEPT !.with = @ \ {p}]]

\* the response is sent: the handler's locals are gone
Finish(p, res) ==
    [calls EXCEPT ![p].pc = "done", ![p].out = res, ![p].user = NoUser,
                  ![p].password = "", ![p].storedId = 0, ![p].newToken = NoTok]

RowsOf(rows, uid) == {r \in rows : r.userId = uid}

\* the ids of the rows of a table
RowIds == {1, 2}

\* rows as create leaves them: deletedAt null (the empty set; {t} is a
\* Date), and a name that updates replace by "b"
Rows == [id : RowIds, name : {"a"}, deletedAt : {{}}]

\* params.args.where: id 0 and deletedAt "undefined" stand for a field that
\* is not given, "null" for { deletedAt: null }, "notNull" for
\* { deletedAt: { not: null } }; given is FALSE when args has no where
NoWhere == [given |-> FALSE, id |-> 0, deletedAt |-> "undefined"]

\* params.args.data: name "undefined" and deletedAt {} stand for a field that
\* is not given
NoData == [id |-> 0, name |-> "undefined", deletedAt |-> {}]

NoArgs == [where |-> NoWhere, data |-> NoData]

NoDb ==
    [model |-> "", rows |-> {},
     last |-> [action |-> "none", args |-> NoArgs, result |-> {}, error |-> ""]]

\* ------------------------------------------------- middleware chain, app
\* req.user is not set before a middleware sets it
NoReqUser == [set |-> FALSE, id |-> "", hasRoles |-> FALSE, roles |-> {}]

\* no request is in the chain
NoReq == [stage |-> "none", token |-> NoTok, user |-> NoReqUser, required |-> {},
          code |-> 0, msg |-> "", attached |-> "", by |-> ""]

\* the app's concurrent operations
Tasks == {1, 2}

IdleTask ==
    [op |-> "none", pc |-> "idle", stack |-> <<>>, slot |-> 0, attempts |-> 0,
     retries |-> 0, result |-> "", email |-> "", err |-> "", first |-> NoTok]

\* a freshly installed app: nothing stored, provider not constructed
NoClient ==
    [auth |-> NoTok, refresh |-> NoTok, cached |-> "",
     status |-> "initial", user |-> "", errorMessage |-> "",
     tasks |-> [k \in Tasks |-> IdleTask]]

\* a process that was started with both secrets set and is listening
Serving == [phase |-> "serving", secret |-> TRUE, refreshSecret |-> TRUE]

Init ==
    /\ db = NoDb
    /\ req = NoReq
    /\ client = NoClient
    /\ proc = Serving
    /\ now = 0
    /\ users = [e \in Emails |-> NoUser]
    /\ refreshTokens = {}
    /\ passwordResets = {}
    /\ nextId = 1
    /\ calls = [p \in Procs |-> IdleCall]
    /\ started = 0
    /\ issuedRefresh = {}
    /\ issuedReset = {}
    /\ revoked = {}
    /\ rotated = {}
    /\ redeemed = [t \in {} |-> 0]

Tick ==
    /\ now < MaxTime
    /\ now' = now + 1
    /\ UNCHANGED <<db, req, client, proc, users, refreshTokens, passwordResets, nextId, calls,
                   started, issuedRefresh, issuedReset, revoked, rotated, redeemed>>

\* ------------------------------------------------------------- register
\* the request arrives; prisma.user.findUnique({ where: { email } })
Register(p, e, pw) ==
    /\ CanStart(p)
    /\ calls' = Begin(p, [IdleCall EXCEPT !.op = "register", !.pc = "rg_createUser",
                             !.principal = e, !.password = pw,
                             !.user = UserFindUnique(e),
                             !.found = UserFindUnique(e).exists,
                             !.pre = IF users[e].exists THEN 1 ELSE 0])
    /\ started' = started + 1
    /\ UNCHANGED <<db, req, client, proc, now, users, refreshTokens, passwordResets, nextId,
                   issuedRefresh, issuedReset, revoked, rotated, redeemed>>

\* 409 when the lookup found a user; else bcrypt.hash and prisma.user.create
\* (email is the unique key findUnique looks up: a duplicate insert throws)
RegisterCreateUser(p) ==
    LET c == calls[p] IN
    /\ c.pc = "rg_createUser"
    /\ IF c.user.exists
       THEN /\ calls' = Finish(p, ConflictError)
            /\ UNCHANGED users
       ELSE IF users[c.principal].exists
       THEN /\ calls' = Finish(p, Unhandled("P2002"))
            /\ UNCHANGED users
       ELSE /\ users' = [users EXCEPT ![c.principal] =
                            [exists |-> TRUE, password |-> Hash(c.password),
                             deletedAt |-> FALSE]]
            /\ calls' = [calls EXCEPT ![p].pc = "rg_createToken"]
    /\ UNCHANGED <<db, req, client, proc, now, refreshTokens, passwordResets, nextId, started,
                   issuedRefresh, issuedReset, revoked, rotated, redeemed>>

\* generateTokens(user.id); prisma.refreshToken.create; res.status(201)
RegisterCreateToken(p) ==
    LET c == calls[p]
        rt == GenerateRefreshToken(c.principal, now)
    IN
    /\ c.pc = "rg_createToken"
    /\ refreshTokens' = refreshTokens \cup
           {[id |-> nextId, token |-> rt, userId |-> c.principal,
             expiresAt |-> now + RefreshTTL]}
    /\ nextId' = nextId + 1
    /\ calls' = Finish(p, Res(201, "ok", rt))
    /\ issuedRefresh' = issuedRefresh \cup {rt}
    /\ UNCHANGED <<db, req, client, proc, now, users, passwordResets, started,
                   issuedReset, revoked, rotated, redeemed>>

\* ---------------------------------------------------------------- login
\* the request arrives; prisma.user.findUnique({ where: { email } })
Login(p, e, pw) ==
    /\ CanStart(p)
    /\ calls' = Begin(p, [IdleCall EXCEPT !.op = "login", !.pc = "lg_deleteMany",
                             !.principal = e, !.password = pw,
                             !.user = UserFindUnique(e),
                             !.found = UserFindUnique(e).exists,
                             !.matched = (UserFindUnique(e).password = Hash(pw)),
                             !.pre = Cardinality(RowsOf(refreshTokens, e))])
    /\ started' = started + 1
    /\ UNCHANGED <<db, req, client, proc, now, users, refreshTokens, passwordResets, nextId,
                   issuedRefresh, issuedReset, revoked, rotated, redeemed>>

LoginKeepOld(rows, uid) == rows

\* the rows refreshToken.deleteMany({ where: { userId } }) leaves
LoginRemoveOld(rows, uid) == rows \ RowsOf(rows, uid)

\* 401 for no user or a wrong password (bcrypt.compare against the row read
\* by the lookup); else generateTokens and refreshToken.deleteMany
LoginFailureRevealing(found) ==
    IF found THEN AuthenticationError ELSE Res(404, "User not found", NoTok)

\* throw new AppError('Invalid email or password', 401): the same on both
\* branches, no user and wrong password
LoginFailure(found) == AuthenticationError

LoginDeleteMany(p) ==
    LET c == calls[p] IN
    /\ c.pc = "lg_deleteMany"
    /\ IF ~c.user.exists \/ ~Compare(c.password, c.user.password)
       THEN /\ calls' = Finish(p, LoginFailure(c.user.exists))
            /\ UNCHANGED refreshTokens
       ELSE /\ refreshTokens' = LoginRemoveOld(refreshTokens, c.principal)
            /\ calls' = [calls EXCEPT ![p].pc = "lg_create",
                            ![p].newToken = GenerateRefreshToken(c.principal, now)]
    /\ UNCHANGED <<db, req, client, proc, now, users, passwordResets, nextId, started,
                   issuedRefresh, issuedReset, revoked, rotated, redeemed>>

\* prisma.refreshToken.create with expiresAt = Date.now() + 7 days
LoginCreate(p) ==
    LET c == calls[p] IN
    /\ c.pc = "lg_create"
    /\ refreshTokens' = refreshTokens \cup
           {[id |-> nextId, token |-> c.newToken, userId |-> c.principal,
             expiresAt |-> now + RefreshTTL]}
    /\ nextId' = nextId + 1
    /\ calls' = [calls EXCEPT ![p].pc = "lg_update"]
    /\ UNCHANGED <<db, req, client, proc, now, users, passwordResets, started,
                   issuedRefresh, issuedReset, revoked, rotated, redeemed>>

\* prisma.user.update({ data: { lastLoginAt } }) and res.json: lastLoginAt is
\* read by nothing, so the update leaves the modelled columns as they are
LoginUpdateUser(p) ==
    LET c == calls[p] IN
    /\ c.pc = "lg_update"
    /\ calls' = Finish(p, Res(200, "ok", c.newToken))
    /\ issuedRefresh' = issuedRefresh \cup {c.newToken}
    /\ UNCHANGED <<db, req, client, proc, now, users, refreshTokens, passwordResets, nextId, started,
                   issuedReset, revoked, rotated, redeemed>>

\* -------------------------------------------------------------- inputs
\* what a client can present: the tokens it was given, and a tampered one
IssuedAccess == {GenerateAccessToken(t.userId, t.iat) : t \in issuedRefresh}

Forged(type) == {Tok(e, type, 0, ForgedKey) : e \in Emails}

Presentable(type) == issuedRefresh \cup IssuedAccess \cup issuedReset \cup Forged(type)

Kinds == {"access", "refresh", "password-reset"}

\* every token a holder of one of the two keys can have signed by the given
\* instant: any principal, any kind tag, any issue time up to that instant
Signable(clock) ==
    {Tok(e, k, i, key) : e \in Emails, k \in Kinds, i \in 0..clock,
                         key \in {JWT_SECRET, JWT_REFRESH_SECRET}}

\* the credential the issuer signs for a principal at a given instant
IssueFor(kind, uid, clock) ==
    CASE kind = "access" -> GenerateAccessToken(uid, clock)
      [] kind = "refresh" -> GenerateRefreshToken(uid, clock)
      [] kind = "password-reset" -> SignResetToken(uid, clock)

\* the kind each verifying operation expects
KindOf(op) ==
    CASE op = "refresh" -> "refresh"
      [] op = "resetPassword" -> "password-reset"
      [] OTHER -> "access"

\* -------------------------------------------------------------- refresh
FindRefreshAnyAge(t, clock) ==
    {r \in refreshTokens : r.token = t /\ r.userId = t.userId}

FindRefresh(t, clock) ==
    {r \in refreshTokens : r.token = t /\ r.userId = t.userId /\ r.expiresAt > clock}

\* the presented credential has RefreshRecords, and the expiresAt of each of
\* them has passed
StaleOnly(t, clock) ==
    /\ \E r \in refreshTokens : r.token = t /\ r.userId = t.userId
    /\ \A r \in refreshTokens :
          (r.token = t /\ r.userId = t.userId) => r.expiresAt <= clock

\* the request arrives; verifyRefreshToken; 401 for null; else
\* prisma.refreshToken.findFirst({ token, userId, expiresAt: { gt: now } })
RefreshArrives(p, t) ==
    LET c == [IdleCall EXCEPT !.op = "refresh", !.principal = t.userId, !.token = t,
                  !.wasRevoked = (t \in revoked), !.wasRotated = (t \in rotated),
                  !.verify = IF VerifyRefreshToken(t, now) THEN "ok" ELSE "null",
                  !.pre = IF StaleOnly(t, now) THEN 1 ELSE 0]
    IN
    /\ CanStart(p)
    /\ started' = started + 1
    /\ IF ~VerifyRefreshToken(t, now)
       THEN calls' = Begin(p, [c EXCEPT !.pc = "done", !.out = InvalidRefreshToken])
       ELSE \E id \in (IF FindRefresh(t, now) = {} THEN {0}
                       ELSE {r.id : r \in FindRefresh(t, now)}) :
              calls' = Begin(p, [c EXCEPT !.pc = "rf_update", !.storedId = id,
                                     !.matched = (id # 0)])
    /\ UNCHANGED <<db, req, proc, now, users, refreshTokens, passwordResets, nextId,
                   issuedRefresh, issuedReset, revoked, rotated, redeemed>>

\* the request of a client the model does not follow
Refresh(p, t) == RefreshArrives(p, t) /\ UNCHANGED client

RefreshRequest(p) == \E t \in Presentable("refresh") : Refresh(p, t)

RefreshRowGoneIgnored(rows, id) == FALSE

\* update({ where: { id } }) finds no row to update and throws
RefreshRowGone(rows, id) == \A r \in rows : r.id # id

\* 401 when the lookup found nothing; else generateTokens and
\* prisma.refreshToken.update({ where: { id: storedToken.id } }), which throws
\* when the row is gone; res.json with the new pair
RefreshUpdate(p) ==
    LET c == calls[p]
        rt == GenerateRefreshToken(c.principal, now)
    IN
    /\ c.pc = "rf_update"
    /\ IF c.storedId = 0
       THEN /\ calls' = Finish(p, InvalidRefreshToken)
            /\ UNCHANGED <<refreshTokens, issuedRefresh, rotated>>
       ELSE IF RefreshRowGone(refreshTokens, c.storedId)
       THEN /\ calls' = Finish(p, Unhandled("P2025"))
            /\ UNCHANGED <<refreshTokens, issuedRefresh, rotated>>
       ELSE /\ refreshTokens' =
                  {IF r.id = c.storedId
                   THEN [r EXCEPT !.token = rt, !.expiresAt = now + RefreshTTL]
                   ELSE r : r \in refreshTokens}
            /\ calls' = Finish(p, Res(200, "ok", rt))
            /\ issuedRefresh' = issuedRefresh \cup {rt}
            /\ rotated' = rotated \cup {c.token}
    /\ UNCHANGED <<db, req, client, proc, now, users, passwordResets, nextId, started,
                   issuedReset, revoked, redeemed>>

\* --------------------------------------------------------------- logout
LogoutRemoveEveryone(rows, uid) == {}

\* the rows refreshToken.deleteMany({ where: { userId } }) leaves
LogoutRemove(rows, uid) == rows \ RowsOf(rows, uid)

\* authenticate attaches req.user from the bearer token (401 otherwise);
\* prisma.refreshToken.deleteMany({ where: { userId } }); res.json
Logout(p, t) ==
    LET c == [IdleCall EXCEPT !.op = "logout", !.principal = t.userId, !.token = t,
                  !.pc = "done", !.verify = Authenticate(t, now),
                  !.pre = Cardinality(RowsOf(refreshTokens, t.userId))]
    IN
    /\ CanStart(p)
    /\ started' = started + 1
    /\ IF Authenticate(t, now) # "ok"
       THEN /\ calls' = Begin(p, [c EXCEPT !.out = Res(401, Authenticate(t, now), NoTok)])
            /\ UNCHANGED <<refreshTokens, revoked>>
       ELSE /\ refreshTokens' = LogoutRemove(refreshTokens, t.userId)
            /\ calls' = Begin(p, [c EXCEPT !.out = Res(200, "ok", NoTok)])
            /\ revoked' = revoked \cup {r \in issuedRefresh : r.userId = t.userId}
    /\ UNCHANGED <<db, req, client, proc, now, users, passwordResets, nextId,
                   issuedRefresh, issuedReset, rotated, redeemed>>

LogoutRequest(p) == \E t \in IssuedAccess : Logout(p, t)

\* ------------------------------------------------------- forgotPassword
ResetLinkSent == Res(200, "If the email exists, a reset link has been sent.", NoTok)

\* the request arrives; prisma.user.findUnique({ where: { email } })
ForgotPassword(p, e) ==
    /\ CanStart(p)
    /\ calls' = Begin(p, [IdleCall EXCEPT !.op = "forgotPassword", !.pc = "fp_create",
                             !.principal = e, !.user = UserFindUnique(e),
                             !.found = UserFindUnique(e).exists])
    /\ started' = started + 1
    /\ UNCHANGED <<db, req, client, proc, now, users, refreshTokens, passwordResets, nextId,
                   issuedRefresh, issuedReset, revoked, rotated, redeemed>>

ForgotAnswerRevealing(found) ==
    IF found THEN ResetLinkSent ELSE Res(404, "User not found", NoTok)

\* the body of res.json, written out once in the branch for no user and once
\* after the insert
ForgotAnswer(found) == ResetLinkSent

InsertResetInvalidating(rows, row) == {[r EXCEPT !.used = TRUE] : r \in rows} \cup {row}

\* prisma.passwordReset.create: one more row, used false by the column default
InsertReset(rows, row) == rows \cup {row}

\* no user: the constant answer; else jwt.sign({ userId, type: 'password-reset' },
\* JWT_SECRET, 1h) and prisma.passwordReset.create; the same answer
ForgotCreate(p) ==
    LET c == calls[p]
        t == SignResetToken(c.principal, now)
    IN
    /\ c.pc = "fp_create"
    /\ calls' = Finish(p, ForgotAnswer(c.user.exists))
    /\ IF ~c.user.exists
       THEN UNCHANGED <<passwordResets, nextId, issuedReset>>
       ELSE /\ passwordResets' = InsertReset(passwordResets,
                   [id |-> nextId, token |-> t, userId |-> c.principal,
                    expiresAt |-> now + ResetTTL, used |-> FALSE])
            /\ nextId' = nextId + 1
            /\ issuedReset' = issuedReset \cup {t}
    /\ UNCHANGED <<db, req, client, proc, now, users, refreshTokens, started,
                   issuedRefresh, revoked, rotated, redeemed>>

\* -------------------------------------------------------- resetPassword
FindReset(t, clock) ==
    {r \in passwordResets :
        r.token = t /\ r.userId = t.userId /\ ~r.used /\ r.expiresAt > clock}

Count(f, t) == IF t \in DOMAIN f THEN f[t] ELSE 0

\* the request arrives; jwt.verify(token, JWT_SECRET) throws -> 400; payload.type
\* is not 'password-reset' -> 400 with another message; else
\* prisma.passwordReset.findFirst({ token, userId, used: false, expiresAt > now })
ResetPassword(p, t, pw) ==
    LET c == [IdleCall EXCEPT !.op = "resetPassword", !.principal = t.userId,
                  !.token = t, !.password = pw]
    IN
    /\ CanStart(p)
    /\ started' = started + 1
    /\ IF JwtVerify(t, JWT_SECRET, now) # "ok"
       THEN calls' = Begin(p, [c EXCEPT !.pc = "done", !.password = "",
                                   !.verify = JwtVerify(t, JWT_SECRET, now),
                                   !.out = InvalidOrExpiredResetToken])
       ELSE IF t.type # "password-reset"
       THEN calls' = Begin(p, [c EXCEPT !.pc = "done", !.password = "",
                                   !.verify = "Invalid reset token",
                                   !.out = InvalidResetTokenType])
       ELSE \E id \in (IF FindReset(t, now) = {} THEN {0}
                       ELSE {r.id : r \in FindReset(t, now)}) :
              calls' = Begin(p, [c EXCEPT !.pc = "rp_transaction", !.storedId = id,
                                     !.matched = (id # 0), !.verify = "ok"])
    /\ UNCHANGED <<db, req, client, proc, now, users, refreshTokens, passwordResets, nextId,
                   issuedRefresh, issuedReset, revoked, rotated, redeemed>>

ResetPasswordRequest(p) ==
    \E pw \in Passwords : \E t \in Presentable("password-reset") : ResetPassword(p, t, pw)

\* 400 when the lookup found nothing; else bcrypt.hash and
\* $transaction([user.update password, passwordReset.update used]); res.json
MarkAllUsed(rows, id) == {[r EXCEPT !.used = TRUE] : r \in rows}

\* prisma.passwordReset.update({ where: { id }, data: { used: true } })
MarkUsed(rows, id) ==
    {IF r.id = id THEN [r EXCEPT !.used = TRUE] ELSE r : r \in rows}

ResetTransaction(p) ==
    LET c == calls[p] IN
    /\ c.pc = "rp_transaction"
    /\ IF c.storedId = 0
       THEN /\ calls' = Finish(p, InvalidOrExpiredResetToken)
            /\ UNCHANGED <<users, passwordResets, redeemed>>
       ELSE IF \A r \in passwordResets : r.id # c.storedId
       THEN /\ calls' = Finish(p, Unhandled("P2025"))
            /\ UNCHANGED <<users, passwordResets, redeemed>>
       ELSE /\ users' = UserUpdatePassword(c.principal, Hash(c.password))
            /\ passwordResets' = MarkUsed(passwordResets, c.storedId)
            /\ calls' = [Finish(p, Res(200, "Password has been reset successfully.", NoTok))
                            EXCEPT ![p].wroteHash = (UserUpdateCount(c.principal) > 0),
                                   ![p].consumed = TRUE]
            /\ redeemed' = [x \in DOMAIN redeemed \cup {c.token} |->
                              IF x = c.token THEN Count(redeemed, x) + 1
                              ELSE redeemed[x]]
    /\ UNCHANGED <<db, req, client, proc, now, refreshTokens, nextId, started,
                   issuedRefresh, issuedReset, revoked, rotated>>

\* ---------------------------------------------------------------- getMe
\* authenticate, then prisma.user.findUnique({ where: { id } }): 404 when the
\* lookup (which skips soft-deleted rows) finds nothing; res.json
GetMeArrives(p, t) ==
    LET c == [IdleCall EXCEPT !.op = "getMe", !.principal = t.userId, !.token = t,
                  !.pc = "done", !.verify = Authenticate(t, now),
                  !.wasRevoked = (\E r \in revoked : r.userId = t.userId),
                  !.pre = Cardinality(RowsOf(refreshTokens, t.userId))]
    IN
    /\ CanStart(p)
    /\ started' = started + 1
    /\ calls' = Begin(p,
          IF Authenticate(t, now) # "ok"
          THEN [c EXCEPT !.out = Res(401, Authenticate(t, now), NoTok)]
          ELSE IF ~UserFindUnique(t.userId).exists
          THEN [c EXCEPT !.out = Res(404, "User not found", NoTok)]
          ELSE [c EXCEPT !.out = Res(200, "ok", NoTok), !.found = TRUE])
    /\ UNCHANGED <<db, req, proc, now, users, refreshTokens, passwordResets, nextId,
                   issuedRefresh, issuedReset, revoked, rotated, redeemed>>

\* the request of a client the model does not follow
GetMe(p, t) == GetMeArrives(p, t) /\ UNCHANGED client

GetMeRequest(p) == \E t \in Presentable("access") : GetMe(p, t)

\* -------------------------------------------------------- account deletion
\* the client's DELETE /users/:id with its bearer token: authenticate, then
\* prisma.user.delete, which the middleware turns into an update of deletedAt
\* (the row stays, so no row that refers to it is removed)
DeleteAccount(p, t) ==
    LET c == [IdleCall EXCEPT !.op = "deleteAccount", !.principal = t.userId,
                  !.token = t, !.pc = "done", !.verify = Authenticate(t, now)]
    IN
    /\ CanStart(p)
    /\ started' = started + 1
    /\ IF Authenticate(t, now) # "ok"
       THEN /\ calls' = Begin(p, [c EXCEPT !.out = Res(401, Authenticate(t, now), NoTok)])
            /\ UNCHANGED users
       ELSE IF ~users[t.userId].exists
       THEN /\ calls' = Begin(p, [c EXCEPT !.out = Unhandled("P2025")])
            /\ UNCHANGED users
       ELSE /\ users' = UserSoftDelete(t.userId)
            /\ calls' = Begin(p, [c EXCEPT !.out = Res(200, "ok", NoTok)])
    /\ UNCHANGED <<db, req, client, proc, now, refreshTokens, passwordResets, nextId,
                   issuedRefresh, issuedReset, revoked, rotated, redeemed>>

DeleteAccountRequest(p) == \E t \in IssuedAccess : DeleteAccount(p, t)

Next ==
    \/ Tick
    \/ \E p \in Procs, e \in Emails, pw \in Passwords : Register(p, e, pw)
    \/ \E p \in Procs : RegisterCreateUser(p)
    \/ \E p \in Procs : RegisterCreateToken(p)
    \/ \E p \in Procs, e \in Emails, pw \in Passwords : Login(p, e, pw)
    \/ \E p \in Procs : LoginDeleteMany(p)
    \/ \E p \in Procs : LoginCreate(p)
    \/ \E p \in Procs : LoginUpdateUser(p)
    \/ \E p \in Procs : RefreshRequest(p)
    \/ \E p \in Procs : RefreshUpdate(p)
    \/ \E p \in Procs : LogoutRequest(p)
    \/ \E p \in Procs, e \in Emails : ForgotPassword(p, e)
    \/ \E p \in Procs : ForgotCreate(p)
    \/ \E p \in Procs : ResetPasswordRequest(p)
    \/ \E p \in Procs : ResetTransaction(p)
    \/ \E p \in Procs : DeleteAccountRequest(p)
    \/ \E p \in Procs : GetMeRequest(p)

Spec == Init /\ [][Next]_vars

\* sessions only: registration, login and logout
NextSession ==
    \/ Tick
    \/ \E p \in Procs, e \in Emails, pw \in Passwords : Register(p, e, pw)
    \/ \E p \in Procs : RegisterCreateUser(p)
    \/ \E p \in Procs : RegisterCreateToken(p)
    \/ \E p \in Procs, e \in Emails, pw \in Passwords : Login(p, e, pw)
    \/ \E p \in Procs : LoginDeleteMany(p)
    \/ \E p \in Procs : LoginCreate(p)
    \/ \E p \in Procs : LoginUpdateUser(p)
    \/ \E p \in Procs : LogoutRequest(p)

SpecSession == Init /\ [][NextSession]_vars

\* password reset only: registration, account deletion, request and redemption
NextReset ==
    \/ Tick
    \/ \E p \in Procs, e \in Emails, pw \in Passwords : Register(p, e, pw)
    \/ \E p \in Procs : RegisterCreateUser(p)
    \/ \E p \in Procs : RegisterCreateToken(p)
    \/ \E p \in Procs, e \in Emails : ForgotPassword(p, e)
    \/ \E p \in Procs : ForgotCreate(p)
    \/ \E p \in Procs : ResetPasswordRequest(p)
    \/ \E p \in Procs : ResetTransaction(p)
    \/ \E p \in Procs : DeleteAccountRequest(p)

SpecReset == Init /\ [][NextReset]_vars

\* access credentials in use: registration, logout and getMe
NextAccess ==
    \/ Tick
    \/ \E p \in Procs, e \in Emails, pw \in Passwords : Register(p, e, pw)
    \/ \E p \in Procs : RegisterCreateUser(p)
    \/ \E p \in Procs : RegisterCreateToken(p)
    \/ \E p \in Procs : LogoutRequest(p)
    \/ \E p \in Procs : GetMeRequest(p)

SpecAccess == Init /\ [][NextAccess]_vars

\* rotation against revocation: registration, refresh and logout
NextRotation ==
    \/ Tick
    \/ \E p \in Procs, e \in Emails, pw \in Passwords : Register(p, e, pw)
    \/ \E p \in Procs : RegisterCreateUser(p)
    \/ \E p \in Procs : RegisterCreateToken(p)
    \/ \E p \in Procs : RefreshRequest(p)
    \/ \E p \in Procs : RefreshUpdate(p)
    \/ \E p \in Procs : LogoutRequest(p)

SpecRotation == Init /\ [][NextRotation]_vars

\* ---------------------------------------------------------- process start
\* the process comes up with whatever its environment holds
InitStartup ==
    /\ db = NoDb
    /\ req = NoReq
    /\ client = NoClient
    /\ proc \in {[phase |-> "starting", secret |-> a, refreshSecret |-> b] :
                   a \in BOOLEAN, b \in BOOLEAN}
    /\ now = 0
    /\ users = [e \in Emails |-> NoUser]
    /\ refreshTokens = {}
    /\ passwordResets = {}
    /\ nextId = 1
    /\ calls = [p \in Procs |-> IdleCall]
    /\ started = 0
    /\ issuedRefresh = {}
    /\ issuedReset = {}
    /\ revoked = {}
    /\ rotated = {}
    /\ redeemed = [t \in {} |-> 0]

\* express(), app.use(...), app.listen(PORT): process.env is read by nothing
\* on the way
Listen ==
    /\ proc.phase = "starting"
    /\ proc' = [proc EXCEPT !.phase = "serving"]
    /\ UNCHANGED <<db, req, client, now, users, refreshTokens, passwordResets, nextId,
                   calls, started, issuedRefresh, issuedReset, revoked, rotated,
                   redeemed>>

Serves == proc.phase = "serving"

ServeRegister(p, e, pw) == Serves /\ Register(p, e, pw)

ServeRegisterCreateUser(p) == Serves /\ RegisterCreateUser(p)

ServeRegisterCreateToken(p) ==
    Serves /\ proc.secret /\ proc.refreshSecret /\ RegisterCreateToken(p)

\* generateTokens with a secret that is undefined: jwt.sign throws
\* ('secretOrPrivateKey must have a value') after the user row was created
RegisterSignThrows(p) ==
    /\ Serves
    /\ ~(proc.secret /\ proc.refreshSecret)
    /\ calls[p].pc = "rg_createToken"
    /\ calls' = Finish(p, Unhandled("secretOrPrivateKey must have a value"))
    /\ UNCHANGED <<db, req, client, proc, now, users, refreshTokens, passwordResets, nextId, started,
                   issuedRefresh, issuedReset, revoked, rotated, redeemed>>

ServeGetMe(p) == Serves /\ proc.secret /\ GetMeRequest(p)

\* authenticate with JWT_SECRET undefined: jwt.verify throws a
\* JsonWebTokenError ('secret or public key must be provided'), answered 401
GetMeVerifyThrows(p) ==
    /\ Serves
    /\ ~proc.secret
    /\ CanStart(p)
    /\ started' = started + 1
    /\ \E t \in Presentable("access") :
          calls' = Begin(p, [IdleCall EXCEPT !.op = "getMe", !.principal = t.userId,
                                !.token = t, !.pc = "done",
                                !.verify = "Invalid token",
                                !.out = Res(401, "Invalid token", NoTok)])
    /\ UNCHANGED <<db, req, client, proc, now, users, refreshTokens, passwordResets, nextId,
                   issuedRefresh, issuedReset, revoked, rotated, redeemed>>

NextStartup ==
    \/ Listen
    \/ Tick
    \/ \E p \in Procs, e \in Emails, pw \in Passwords : ServeRegister(p, e, pw)
    \/ \E p \in Procs : ServeRegisterCreateUser(p)
    \/ \E p \in Procs : ServeRegisterCreateToken(p)
    \/ \E p \in Procs : RegisterSignThrows(p)
    \/ \E p \in Procs : ServeGetMe(p)
    \/ \E p \in Procs : GetMeVerifyThrows(p)

SpecStartup == InitStartup /\ [][NextStartup]_vars

\* a second principal, who registered before the run and sends no request
Bystander == "b@x.com"

InitBystander ==
    /\ db = NoDb
    /\ req = NoReq
    /\ client = NoClient
    /\ proc = Serving
    /\ now = 0
    /\ users = [e \in Emails |-> NoUser]
    /\ refreshTokens =
          {[id |-> 1, token |-> GenerateRefreshToken(Bystander, 0),
            userId |-> Bystander, expiresAt |-> RefreshTTL]}
    /\ passwordResets = {}
    /\ nextId = 2
    /\ calls = [p \in Procs |-> IdleCall]
    /\ started = 0
    /\ issuedRefresh = {}
    /\ issuedReset = {}
    /\ revoked = {}
    /\ rotated = {}
    /\ redeemed = [t \in {} |-> 0]

SpecBystander == InitBystander /\ [][NextSession]_vars

\* a deployment that ran with JWT_REFRESH_EXPIRES_IN set to more than the
\* 7 days of the RefreshToken row: long enough to outlast the run
ConfiguredRefreshTTL == RefreshTTL + MaxTime + 2

\* the refresh credential such a deployment signed RefreshTTL - 1 ticks before
\* the clock starts: its row has one tick left, its signature far more
LongLived(e) ==
    TokExp(e, "refresh", 1 - RefreshTTL, 1 - RefreshTTL + ConfiguredRefreshTTL,
           JWT_REFRESH_SECRET)

\* the state after register(e, pw) on that deployment
InitExpiry ==
    /\ db = NoDb
    /\ req = NoReq
    /\ client = NoClient
    /\ proc = Serving
    /\ now = 0
    /\ \E pw \in Passwords :
          users = [e \in Emails |->
                     [exists |-> TRUE, password |-> Hash(pw), deletedAt |-> FALSE]]
    /\ refreshTokens =
          {[id |-> 1, token |-> LongLived(e), userId |-> e, expiresAt |-> 1] :
             e \in Emails}
    /\ passwordResets = {}
    /\ nextId = Cardinality(Emails) + 1
    /\ calls = [p \in Procs |-> IdleCall]
    /\ started = 0
    /\ issuedRefresh = {LongLived(e) : e \in Emails}
    /\ issuedReset = {}
    /\ revoked = {}
    /\ rotated = {}
    /\ redeemed = [t \in {} |-> 0]

NextExpiry ==
    \/ Tick
    \/ \E p \in Procs : RefreshRequest(p)
    \/ \E p \in Procs : RefreshUpdate(p)
    \/ \E p \in Procs : LogoutRequest(p)

SpecExpiry == InitExpiry /\ [][NextExpiry]_vars

\* the verifying operations alone, presented with arbitrary signed tokens
GetMeAny(p) == \E t \in Signable(now) : GetMe(p, t)

RefreshAny(p) == \E t \in Signable(now) : Refresh(p, t)

ResetPasswordAny(p) == \E t \in Signable(now) : ResetPassword(p, t, "pw1")

NextVerifier ==
    \/ Tick
    \/ \E p \in Procs : GetMeAny(p)
    \/ \E p \in Procs : RefreshAny(p)
    \/ \E p \in Procs : RefreshUpdate(p)
    \/ \E p \in Procs : ResetPasswordAny(p)
    \/ \E p \in Procs : ResetTransaction(p)

SpecVerifier == Init /\ [][NextVerifier]_vars

\* ------------------------------------------------------------ properties
Done(p, op) == calls[p].pc = "done" /\ calls[p].op = op

Succeeded(p) == calls[p].out.code \in {200, 201}

\* C1: of two overlapping refresh calls that present the same credential and
\* both found it stored, exactly one returns a new pair, the other answers
\* InvalidRefreshToken, and the principal is left with exactly one
\* RefreshRecord, holding the winner's new value.
C1_ExactlyOneRefreshWins ==
    \A p, q \in Procs :
        ( /\ p # q
          /\ Done(p, "refresh") /\ Done(q, "refresh")
          /\ calls[p].token = calls[q].token
          /\ q \in calls[p].with
          /\ calls[p].matched /\ calls[q].matched
          /\ Succeeded(p) )
        => /\ calls[q].out = InvalidRefreshToken
           /\ \E r \in refreshTokens :
                 /\ RowsOf(refreshTokens, calls[p].principal) = {r}
                 /\ r.token = calls[p].out.refreshToken

\* C2: in every reachable state the store holds at most one RefreshRecord
\* per principal.
C2_AtMostOneRefreshRecord ==
    \A e \in Emails : Cardinality(RowsOf(refreshTokens, e)) <= 1

\* C3: a refresh call that presents a refresh credential issued to p before a
\* completed logout(p) answers InvalidRefreshToken.
C3_RevokedRefreshFails ==
    \A p \in Procs :
        (Done(p, "refresh") /\ calls[p].wasRevoked) => calls[p].out = InvalidRefreshToken

\* C4: at most one redemption of a reset credential ever succeeds.
C4_ResetSingleUse ==
    \A t \in DOMAIN redeemed : redeemed[t] <= 1

\* C5: of two overlapping redeemReset calls that present the same reset
\* credential at most one succeeds.
C5_ConcurrentRedeemOnce ==
    \A p, q \in Procs :
        ( /\ p # q
          /\ Done(p, "resetPassword") /\ Done(q, "resetPassword")
          /\ calls[p].token = calls[q].token
          /\ q \in calls[p].with )
        => ~(Succeeded(p) /\ Succeeded(q))

\* C6: a successful refresh returns a refresh credential different from the
\* one presented, and a refresh call presenting a credential that an earlier
\* successful refresh consumed answers InvalidRefreshToken.
C6_RotationInvalidatesOld ==
    \A p \in Procs :
        Done(p, "refresh") =>
            /\ Succeeded(p) => calls[p].out.refreshToken # calls[p].token
            /\ calls[p].wasRotated => calls[p].out = InvalidRefreshToken

\* C7: every refresh call ends with a new pair or with the one
\* InvalidRefreshToken response.
C7_RefreshTwoOutcomes ==
    \A p \in Procs :
        Done(p, "refresh") =>
            \/ calls[p].out = InvalidRefreshToken
            \/ calls[p].out.code = 200 /\ calls[p].out.refreshToken # NoTok

\* C8: every failing redeemReset call returns the same
\* InvalidOrExpiredResetToken response.
C8_ResetFailuresUniform ==
    \A p \in Procs :
        (Done(p, "resetPassword") /\ ~Succeeded(p)) =>
            calls[p].out = InvalidOrExpiredResetToken

\* C9: when a login that overlapped no other request on its principal
\* completes successfully, the principal has exactly one RefreshRecord and it
\* holds the refresh credential that login returns.
C9_SoloLoginLeavesOneRecord ==
    [][\A p \in Procs :
         ( /\ calls[p].pc = "lg_update"
           /\ calls'[p].pc = "done"
           /\ calls'[p].solo )
         => \E r \in refreshTokens' :
               /\ RowsOf(refreshTokens', calls[p].principal) = {r}
               /\ r.token = calls'[p].out.refreshToken]_vars

\* a login alone on its principal completed, and the principal had more than
\* one RefreshRecord when it began
C9_Witness ==
    \E p \in Procs :
        /\ Done(p, "login") /\ Succeeded(p)
        /\ calls[p].solo
        /\ calls[p].pre >= 2

\* C10: no refresh lookup reads the store while a login is between its
\* deletion of the old records and its insertion of the new one.
C10_AtomicReplacement ==
    [][\A p, q \in Procs :
         (calls[p].pc # "rf_update" /\ calls'[p].pc = "rf_update")
         => calls[q].pc # "lg_create"]_vars

\* C11: after a redeemReset call has finished (succeeded, failed or aborted),
\* that call wrote the principal's credential hash if and only if that call
\* set the matched ResetRecord to used = true, also when the Principal row has
\* been soft-deleted.
C11_ConsumedIffHashChanged ==
    \A p \in Procs :
        Done(p, "resetPassword") => (calls[p].wroteHash <=> calls[p].consumed)

\* C12: no step changes a ResetRecord's used flag from true back to false,
\* and no credential hash is written on behalf of a ResetRecord whose used
\* flag is already true, whatever time the record has left before it expires.
C12_UsedIsFinal ==
    [][/\ \A r \in passwordResets, r2 \in passwordResets' :
             (r.used /\ r2.id = r.id) => r2.used
       /\ \A p \in Procs :
             ( /\ calls[p].pc = "rp_transaction"
               /\ calls'[p].pc = "done"
               /\ calls'[p].wroteHash )
             => \A r \in passwordResets : r.id = calls[p].storedId => ~r.used]_vars

\* C13: a requestReset for an email that no Principal has changes nothing in
\* the store, and it answers exactly what a requestReset for an existing
\* email answers.
C13_RequestResetDoesNotReveal ==
    [][\A p \in Procs :
         (calls[p].pc = "fp_create" /\ calls'[p].pc = "done")
         => /\ calls'[p].out = ResetLinkSent
            /\ \A q \in Procs :
                  (calls'[q].pc = "done" /\ calls'[q].op = "forgotPassword")
                  => calls'[q].out = calls'[p].out
            /\ ~calls[p].found =>
                  UNCHANGED <<users, refreshTokens, passwordResets, nextId>>]_vars

\* one finished requestReset found no Principal, another found one
C13_Witness ==
    \E p, q \in Procs :
        /\ Done(p, "forgotPassword") /\ ~calls[p].found
        /\ Done(q, "forgotPassword") /\ calls[q].found
        /\ passwordResets # {}

\* C14: a requestReset for an existing principal inserts exactly one new
\* ResetRecord, with used = false, and leaves every existing ResetRecord as it
\* was; a redemption leaves every ResetRecord other than the one it matched
\* as it was, so a second reset credential of the same principal stays
\* redeemable.
C14_RequestsAccumulate ==
    [][\A p \in Procs :
         /\ ( /\ calls[p].pc = "fp_create"
              /\ calls'[p].pc = "done"
              /\ calls[p].found )
            => \E n \in passwordResets' :
                  /\ passwordResets' = passwordResets \cup {n}
                  /\ \A r \in passwordResets : r.id # n.id
                  /\ ~n.used
                  /\ n.userId = calls[p].principal
         /\ (calls[p].pc = "rp_transaction" /\ calls'[p].pc = "done")
            => \A r \in passwordResets :
                  r.id # calls[p].storedId
                  => /\ r \in passwordResets'
                     /\ (r \in FindReset(r.token, now))
                           => (r \in FindReset(r.token, now)')]_vars

\* two reset credentials of one principal: one has been redeemed, the other
\* is still matched by the redemption lookup
C14_Witness ==
    \E r1, r2 \in passwordResets :
        /\ r1.userId = r2.userId
        /\ r1.token # r2.token
        /\ r1.used
        /\ r2 \in FindReset(r2.token, now)
        /\ \E p \in Procs :
              Done(p, "resetPassword") /\ Succeeded(p) /\ calls[p].token = r1.token

\* C15: a login with the email of an existing principal and a secret that is
\* not the one whose hash the principal has ends with AuthenticationError and
\* leaves the store as it was: no RefreshRecord of any principal is created,
\* modified or deleted.
C15_WrongSecretChangesNothing ==
    [][\A p \in Procs :
         ( /\ calls[p].pc = "lg_deleteMany"
           /\ calls[p].found /\ ~calls[p].matched
           /\ calls'[p].pc # calls[p].pc )
         => /\ calls'[p].pc = "done"
            /\ calls'[p].out = AuthenticationError
            /\ UNCHANGED <<users, refreshTokens, passwordResets, nextId>>]_vars

\* a login with a wrong secret has finished while the principal had a
\* RefreshRecord
C15_Witness ==
    \E p \in Procs :
        /\ Done(p, "login")
        /\ calls[p].found /\ ~calls[p].matched
        /\ RowsOf(refreshTokens, calls[p].principal) # {}

\* C16: a register call for an email that already has a Principal row ends
\* with ConflictError and creates neither a Principal nor a RefreshRecord
\* (one Principal row with that email exists afterwards).
C16_SecondRegisterConflicts ==
    [][\A p \in Procs :
         ( /\ calls[p].pc = "rg_createUser"
           /\ calls[p].pre = 1
           /\ calls'[p].pc # calls[p].pc )
         => /\ calls'[p].pc = "done"
            /\ calls'[p].out = ConflictError
            /\ users'[calls[p].principal].exists
            /\ UNCHANGED <<users, refreshTokens, nextId>>]_vars

VerifyingOps == {"getMe", "refresh", "resetPassword"}

\* C17: for every principal and every kind, a credential that the issuer has
\* just signed for the principal, verified at the instant of issue by the
\* operation that expects its kind, is accepted, and the operation acts for
\* that principal.
C17_VerifyAcceptsFreshCredential ==
    \A p \in Procs :
        ( /\ calls[p].op \in VerifyingOps
          /\ calls[p].token =
                IssueFor(KindOf(calls[p].op), calls[p].token.userId, now) )
        => /\ calls[p].verify = "ok"
           /\ calls[p].principal = calls[p].token.userId

\* an access credential and a refresh credential, both issued at this very
\* instant, have been verified
C17_Witness ==
    \E p, q \in Procs :
        /\ calls[p].op = "getMe"
        /\ calls[p].token = GenerateAccessToken(calls[p].principal, now)
        /\ calls[p].verify = "ok"
        /\ calls[q].op = "refresh"
        /\ calls[q].token = GenerateRefreshToken(calls[q].principal, now)
        /\ calls[q].verify = "ok"

\* C18: an access credential issued at t with lifetime L is accepted at every
\* instant before t + L, and from t + L on, the exact expiry instant included,
\* verification fails because the credential is expired: there is no grace
\* window.
C18_AccessExpiryIsSharp ==
    [][\A p \in Procs :
         LET t == calls'[p].token IN
         ( /\ CanStart(p)
           /\ started' = started + 1
           /\ calls'[p].op = "getMe"
           /\ t = GenerateAccessToken(t.userId, t.iat) )
         => /\ now < t.iat + AccessTTL
                 => (calls'[p].verify = "ok" /\ calls'[p].out.code # 401)
            /\ now >= t.iat + AccessTTL
                 => /\ calls'[p].verify # "ok"
                    /\ calls'[p].out.code = 401
                    /\ JwtVerify(t, JWT_SECRET, now) = "TokenExpiredError"]_vars

\* an access credential was refused at its exact expiry instant
C18_Witness ==
    \E p \in Procs :
        LET t == calls[p].token IN
        /\ Done(p, "getMe")
        /\ t = GenerateAccessToken(t.userId, t.iat)
        /\ calls[p].out.code = 401
        /\ now = t.iat + AccessTTL

\* C19: verification with an expected kind accepts no credential whose kind
\* tag differs: authenticate accepts only access credentials, refresh only
\* refresh credentials, redeemReset only password-reset credentials.
C19_KindIsChecked ==
    \A p \in Procs :
        (calls[p].op \in VerifyingOps /\ calls[p].verify = "ok")
        => calls[p].token.type = KindOf(calls[p].op)

\* a password-reset credential with a good signature, not expired, was
\* presented as an access credential and refused for its kind
C19_Witness ==
    \E p \in Procs :
        /\ Done(p, "getMe")
        /\ calls[p].token.type = "password-reset"
        /\ calls[p].token.key = JWT_SECRET
        /\ calls[p].verify = "Invalid token type"

\* C20: access and refresh credentials are verified with different keys: a
\* credential signed with the access key is never accepted by refresh, and
\* one signed with the refresh key is never accepted by authenticate, whatever
\* its kind tag says.
C20_KeysAreSeparate ==
    \A p \in Procs :
        /\ (calls[p].op = "refresh" /\ calls[p].token.key = JWT_SECRET)
              => calls[p].verify # "ok"
        /\ (calls[p].op = "getMe" /\ calls[p].token.key = JWT_REFRESH_SECRET)
              => calls[p].verify # "ok"

\* a credential tagged refresh, signed with the access key and not expired,
\* was presented to refresh, and one tagged access, signed with the refresh
\* key, to authenticate
C20_Witness ==
    \E p, q \in Procs :
        /\ calls[p].op = "refresh" /\ calls[p].pc = "done"
        /\ calls[p].token = Tok(calls[p].principal, "refresh", now, JWT_SECRET)
        /\ calls[q].op = "getMe" /\ calls[q].pc = "done"
        /\ calls[q].token = Tok(calls[q].principal, "access", now, JWT_REFRESH_SECRET)

\* C21: password-reset credentials are not signed with the access key: no
\* reset credential the server issues carries the access key's signature, and
\* no token signed with the access key passes the signature check of
\* redeemReset.
C21_ResetKeyIsNotAccessKey ==
    /\ \A t \in issuedReset : t.key # JWT_SECRET
    /\ \A p \in Procs :
          (calls[p].op = "resetPassword" /\ calls[p].token.key = JWT_SECRET)
          => calls[p].verify = "JsonWebTokenError"

\* C22: a refresh call answers InvalidRefreshToken whenever the expiresAt of
\* the RefreshRecords that hold the presented credential is not later than
\* now, also when the credential's signature is good and its signed expiry
\* is still ahead.
C22_StoreExpiryRevokes ==
    \A p \in Procs :
        (calls[p].op = "refresh" /\ calls[p].pre = 1)
        => /\ calls[p].storedId = 0
           /\ calls[p].pc = "done" => calls[p].out = InvalidRefreshToken

\* a refresh was refused although the presented credential verified: its
\* record had expired in the store
C22_Witness ==
    \E p \in Procs :
        /\ Done(p, "refresh")
        /\ calls[p].pre = 1
        /\ calls[p].verify = "ok"
        /\ Exp(calls[p].token) > now

\* C23: a logout of an authenticated principal succeeds and leaves the
\* principal without RefreshRecords; when the principal had none it changes
\* nothing; the RefreshRecords of every other principal, and everything else
\* in the store, stay as they were.
C23_LogoutRevokesOnlyOwn ==
    [][\A p \in Procs :
         ( /\ CanStart(p)
           /\ started' = started + 1
           /\ calls'[p].op = "logout"
           /\ calls'[p].verify = "ok" )
         => LET uid == calls'[p].principal IN
            /\ calls'[p].pc = "done"
            /\ calls'[p].out.code = 200
            /\ RowsOf(refreshTokens', uid) = {}
            /\ refreshTokens' \subseteq refreshTokens
            /\ \A r \in refreshTokens : r.userId # uid => r \in refreshTokens'
            /\ RowsOf(refreshTokens, uid) = {} => refreshTokens' = refreshTokens
            /\ UNCHANGED <<users, passwordResets, nextId>>]_vars

\* a logout found no RefreshRecord of its principal (a repeated logout), and
\* the other principal still has its record
C23_Witness ==
    \E p \in Procs :
        /\ Done(p, "logout") /\ Succeeded(p)
        /\ calls[p].pre = 0
        /\ RowsOf(refreshTokens, Bystander) # {}
        /\ revoked # {}

\* C24: once the account of a principal has been deleted, no RefreshRecord
\* and no ResetRecord of the principal remains, and the lookup of every later
\* refresh or redeemReset that presents one of the principal's credentials
\* finds nothing.
C24_DeletionRevokesEverything ==
    [][\A p \in Procs :
         /\ ( /\ CanStart(p)
              /\ started' = started + 1
              /\ calls'[p].op = "deleteAccount"
              /\ Succeeded(p)' )
            => /\ RowsOf(refreshTokens', calls'[p].principal) = {}
               /\ RowsOf(passwordResets', calls'[p].principal) = {}
         /\ ( /\ CanStart(p)
              /\ started' = started + 1
              /\ calls'[p].op \in {"refresh", "resetPassword"}
              /\ calls'[p].principal \in Emails
              /\ users[calls'[p].principal].deletedAt )
            => calls'[p].storedId = 0]_vars

\* C25: verification of an access credential neither reads nor writes the
\* store: whether authenticate accepts depends only on the credential, the
\* access key and the clock, and the step leaves every record as it was; so
\* an unexpired access credential is still accepted after a logout has
\* deleted the principal's RefreshRecords.
C25_VerifierIsStateless ==
    [][\A p \in Procs :
         ( /\ CanStart(p)
           /\ started' = started + 1
           /\ calls'[p].op = "getMe" )
         => LET t == calls'[p].token IN
            /\ calls'[p].verify = "ok"
                 <=> (t.key = JWT_SECRET /\ t.type = "access" /\ now < t.exp)
            /\ UNCHANGED <<users, refreshTokens, passwordResets, nextId>>]_vars

\* an access credential was accepted after a logout, while its principal had
\* no RefreshRecord
C25_Witness ==
    \E p \in Procs :
        /\ Done(p, "getMe")
        /\ calls[p].verify = "ok"
        /\ calls[p].wasRevoked
        /\ calls[p].pre = 0

\* C26: when a logout deletes the principal's RefreshRecord between a refresh
\* call's lookup and its write, the refresh call returns no new pair and its
\* write re-creates nothing: once both calls have finished the principal has
\* no RefreshRecord.
C26_LogoutBeatsRefresh ==
    [][\A p \in Procs :
         ( /\ calls[p].pc = "rf_update"
           /\ calls'[p].pc = "done"
           /\ calls[p].storedId # 0
           /\ \A r \in refreshTokens : r.id # calls[p].storedId )
         => /\ ~Succeeded(p)'
            /\ calls'[p].out.refreshToken = NoTok
            /\ refreshTokens' = refreshTokens
            /\ issuedRefresh' = issuedRefresh
            /\ RowsOf(refreshTokens', calls[p].principal) = {}]_vars

\* a refresh whose lookup had found the record finished after a logout had
\* deleted it
C26_Witness ==
    \E p \in Procs :
        /\ Done(p, "refresh")
        /\ calls[p].matched
        /\ ~Succeeded(p)
        /\ calls[p].token \in revoked
        /\ RowsOf(refreshTokens, calls[p].principal) = {}

\* C27: a process whose environment lacks one of the two signing secrets
\* never gets to serve requests.
C27_MissingSecretHaltsStart ==
    proc.phase = "serving" => (proc.secret /\ proc.refreshSecret)

\* C28: every issuance of a refresh credential (by register, login or
\* refresh) and of a reset credential hands out a value that was not issued
\* before, also when both issuances fall into the same clock second.
C28_IssuancesAreDistinct ==
    [][\A p \in Procs :
          /\ ( /\ calls[p].pc \in {"rg_createToken", "lg_update", "rf_update"}
               /\ calls'[p].pc = "done"
               /\ calls'[p].out.code \in {200, 201} )
             => calls'[p].out.refreshToken \notin issuedRefresh
          /\ ( /\ calls[p].pc = "fp_create"
               /\ calls'[p].pc = "done" )
             => \A r \in passwordResets' \ passwordResets :
                    r.token \notin issuedReset]_vars

\* register, forgotPassword and resetPassword only
NextRedeem ==
    \/ Tick
    \/ \E p \in Procs, e \in Emails, pw \in Passwords : Register(p, e, pw)
    \/ \E p \in Procs : RegisterCreateUser(p)
    \/ \E p \in Procs : RegisterCreateToken(p)
    \/ \E p \in Procs, e \in Emails : ForgotPassword(p, e)
    \/ \E p \in Procs : ForgotCreate(p)
    \/ \E p \in Procs : ResetPasswordRequest(p)
    \/ \E p \in Procs : ResetTransaction(p)

SpecRedeem == Init /\ [][NextRedeem]_vars

\* C29: the step in which a redeemReset call succeeds changes nothing but
\* the principal's hash and the used flag of the matched ResetRecord: every
\* RefreshRecord stays as it was, and a refresh credential that the store
\* would exchange before the step is still exchanged after it.
C29_ResetKeepsSessions ==
    [][\A p \in Procs :
          ( /\ calls[p].pc = "rp_transaction"
            /\ calls'[p].pc = "done"
            /\ calls'[p].out.code = 200 )
          => /\ refreshTokens' = refreshTokens
             /\ nextId' = nextId
             /\ \A t \in issuedRefresh :
                    FindRefresh(t, now) # {} => (FindRefresh(t, now))' # {}
             /\ \A e \in Emails :
                    users'[e] = IF e = calls[p].principal
                                THEN [users[e] EXCEPT !.password = users'[e].password]
                                ELSE users[e]
             /\ Cardinality(passwordResets') = Cardinality(passwordResets)
             /\ \A r \in passwordResets :
                    IF r.id = calls[p].storedId
                    THEN [r EXCEPT !.used = TRUE] \in passwordResets'
                    ELSE r \in passwordResets']_vars

\* a reset went through while the principal held a RefreshRecord and a
\* second, unredeemed ResetRecord
C29_Witness ==
    \E p \in Procs :
        /\ Done(p, "resetPassword") /\ Succeeded(p) /\ calls[p].wroteHash
        /\ \E t \in issuedRefresh :
              t.userId = calls[p].principal /\ FindRefresh(t, now) # {}
        /\ \E r \in passwordResets : r.userId = calls[p].principal /\ ~r.used

\* register and login only
NextLogin ==
    \/ Tick
    \/ \E p \in Procs, e \in Emails, pw \in Passwords : Register(p, e, pw)
    \/ \E p \in Procs : RegisterCreateUser(p)
    \/ \E p \in Procs : RegisterCreateToken(p)
    \/ \E p \in Procs, e \in Emails, pw \in Passwords : Login(p, e, pw)
    \/ \E p \in Procs : LoginDeleteMany(p)
    \/ \E p \in Procs : LoginCreate(p)
    \/ \E p \in Procs : LoginUpdateUser(p)

SpecLogin == Init /\ [][NextLogin]_vars

\* C30: a login for an email that no principal has and a login with an
\* existing email and a wrong secret end with the same AuthenticationError,
\* status and message alike, and neither changes the store.
C30_LoginFailuresAlike ==
    [][\A p \in Procs :
          ( /\ calls[p].pc = "lg_deleteMany"
            /\ ~(calls[p].found /\ calls[p].matched)
            /\ calls'[p].pc # calls[p].pc )
          => /\ calls'[p].pc = "done"
             /\ calls'[p].out = AuthenticationError
             /\ \A q \in Procs :
                    (Done(q, "login") /\ ~Succeeded(q))
                    => ( /\ calls'[p].out.code = calls[q].out.code
                         /\ calls'[p].out.msg = calls[q].out.msg )
             /\ UNCHANGED <<users, refreshTokens, passwordResets, nextId>>]_vars

\* one login failed for want of a principal, another for a wrong secret
C30_Witness ==
    \E p, q \in Procs :
        /\ Done(p, "login") /\ ~calls[p].found /\ ~Succeeded(p)
        /\ Done(q, "login") /\ calls[q].found /\ ~calls[q].matched /\ ~Succeeded(q)

\* C31: of two overlapping register calls for the same email at most one
\* succeeds, and when one succeeds the other answers ConflictError.
C31_ConcurrentRegisterConflicts ==
    \A p, q \in Procs :
        ( /\ p # q
          /\ Done(p, "register") /\ Done(q, "register")
          /\ calls[p].principal = calls[q].principal
          /\ q \in calls[p].with
          /\ Succeeded(p) )
        => calls[q].out = ConflictError

\* ------------------------------------------------------------ authorize
Roles == {"admin", "user"}

\* what next() was called with: code 0 stands for next() without an error
Pass == [code |-> 0, msg |-> ""]

AuthorizeIdOnly(user, required) ==
    IF ~user.set THEN [code |-> 401, msg |-> "Authentication required"]
    ELSE Pass

\* authorize(...roles)(req, res, next)
Authorize(user, required) ==
    IF ~user.set THEN [code |-> 401, msg |-> "Authentication required"]
    ELSE IF ~user.hasRoles \/ (user.roles \cap required = {})
    THEN [code |-> 403, msg |-> "Insufficient permissions"]
    ELSE Pass

\* req.user as the AuthRequest type allows it: unset, { id }, { id, roles }
ReqUsers ==
    {NoReqUser}
    \cup {[set |-> TRUE, id |-> e, hasRoles |-> FALSE, roles |-> {}] : e \in Emails}
    \cup {[set |-> TRUE, id |-> e, hasRoles |-> TRUE, roles |-> rs] :
             e \in Emails, rs \in SUBSET Roles}

\* a request enters a route guarded by authorize(required); u is what an
\* earlier middleware left in req.user
Receive(t, required, u) ==
    /\ req.stage = "none"
    /\ req' = [stage |-> "received", token |-> t, user |-> u, required |-> required,
               code |-> 0, msg |-> "", attached |-> IF u.set THEN "upstream" ELSE "",
               by |-> ""]
    /\ UNCHANGED <<db, client, proc, now, users, refreshTokens, passwordResets, nextId,
                   calls, started, issuedRefresh, issuedReset, revoked, rotated,
                   redeemed>>

ReceiveAny ==
    \E t \in Signable(now) \cup {NoTok}, required \in SUBSET Roles, u \in ReqUsers :
        Receive(t, required, u)

\* authenticate in front of authorize: req.user = { id: payload.userId }
AuthenticateStep ==
    /\ req.stage = "received"
    /\ req' = IF Authenticate(req.token, now) = "ok"
              THEN [req EXCEPT !.stage = "authenticated",
                               !.user = [set |-> TRUE, id |-> req.token.userId,
                                         hasRoles |-> FALSE, roles |-> {}],
                               !.attached = "authenticate"]
              ELSE [req EXCEPT !.stage = "rejected", !.code = 401,
                               !.msg = Authenticate(req.token, now),
                               !.by = "authenticate"]
    /\ UNCHANGED <<db, client, proc, now, users, refreshTokens, passwordResets, nextId,
                   calls, started, issuedRefresh, issuedReset, revoked, rotated,
                   redeemed>>

\* the guard runs: next() or next(new AppError(...))
AuthorizeStep ==
    LET a == Authorize(req.user, req.required) IN
    /\ req.stage \in {"received", "authenticated"}
    /\ req' = [req EXCEPT !.stage = IF a = Pass THEN "admitted" ELSE "rejected",
                          !.code = a.code, !.msg = a.msg, !.by = "authorize"]
    /\ UNCHANGED <<db, client, proc, now, users, refreshTokens, passwordResets, nextId,
                   calls, started, issuedRefresh, issuedReset, revoked, rotated,
                   redeemed>>

\* the response is sent
Respond ==
    /\ req.stage \in {"admitted", "rejected"}
    /\ req' = NoReq
    /\ UNCHANGED <<db, client, proc, now, users, refreshTokens, passwordResets, nextId,
                   calls, started, issuedRefresh, issuedReset, revoked, rotated,
                   redeemed>>

NextAuthorize ==
    \/ Tick
    \/ ReceiveAny
    \/ AuthenticateStep
    \/ AuthorizeStep
    \/ Respond

SpecAuthorize == Init /\ [][NextAuthorize]_vars

\* C32: authorize(R) admits a request only when req.user is set and its
\* roles hold a role of R, answers 401 when req.user is unset and 403
\* otherwise; a request whose user was attached by authenticate is never
\* admitted.
C32_AuthorizeNeedsRole ==
    req.by = "authorize" =>
        /\ (req.stage = "admitted") <=>
              ( /\ req.user.set
                /\ req.user.hasRoles
                /\ req.user.roles \cap req.required # {} )
        /\ (req.stage = "rejected") =>
              (req.code = IF req.user.set THEN 403 ELSE 401)
        /\ (req.attached = "authenticate") => (req.stage = "rejected")

\* a request with a valid access credential reached a guarded route through
\* authenticate and was refused
C32_Witness ==
    /\ req.by = "authorize"
    /\ req.attached = "authenticate"
    /\ req.required # {}
    /\ req.stage = "rejected" /\ req.code = 403

\* ------------------------------------------------------- app: ApiService
\* how many token refreshes one request of the app is followed through
MaxAttempts == 3

\* the app after sign-up at instant 0: the tokens of that instant are in
\* SharedPreferences; the server still holds the RefreshToken row, or it was
\* removed by a logout from another device
InitClient ==
    LET e == CHOOSE x \in Emails : TRUE
        rt == GenerateRefreshToken(e, 0)
    IN
    /\ db = NoDb
    /\ req = NoReq
    /\ client = [NoClient EXCEPT !.auth = GenerateAccessToken(e, 0), !.refresh = rt,
                                 !.cached = e, !.status = "authenticated",
                                 !.user = e]
    /\ proc = Serving
    /\ now = 0
    /\ \E pw \in Passwords :
          users = [x \in Emails |->
                      IF x = e
                      THEN [exists |-> TRUE, password |-> Hash(pw), deletedAt |-> FALSE]
                      ELSE NoUser]
    /\ \E loggedOut \in BOOLEAN :
          /\ refreshTokens = IF loggedOut THEN {}
                             ELSE {[id |-> 1, token |-> rt, userId |-> e,
                                    expiresAt |-> RefreshTTL]}
          /\ revoked = IF loggedOut THEN {rt} ELSE {}
    /\ passwordResets = {}
    /\ nextId = 2
    /\ calls = [p \in Procs |-> IdleCall]
    /\ started = 0
    /\ issuedRefresh = {rt}
    /\ issuedReset = {}
    /\ rotated = {}
    /\ redeemed = [t \in {} |-> 0]

\* one call on the app's stack: a request passing through the interceptors
\* ("get", "refresh") or an invocation of _refreshToken ("rt")
Frame(kind, tok, st) == [kind |-> kind, tok |-> tok, st |-> st, data |-> NoTok]

Pop(s) == SubSeq(s, 1, Len(s) - 1)

\* no other operation of the app awaits the response in slot p
ClientSlotFree(k, p) == \A j \in Tasks \ {k} : client.tasks[j].slot # p

RECURSIVE Settle(_, _, _)
\* the request on top of the stack has returned (ok) or thrown: run the
\* callers up to the next await.  _refreshToken stores the access token of a
\* 200 and returns false on anything else; onError answers false with
\* handler.next(error), a retry's response with handler.resolve and a retry's
\* failure with handler.reject
Settle(s, ok, data) ==
    IF s = <<>>
    THEN [stack |-> <<>>, result |-> IF ok THEN "resolved" ELSE "rejected",
          store |-> NoTok]
    ELSE IF s[Len(s)].kind = "rt"
    THEN IF ok
         THEN [stack |-> [s EXCEPT ![Len(s)] =
                             [s[Len(s)] EXCEPT !.st = "store2", !.data = data]],
               result |-> "", store |-> data]
         ELSE Settle(Pop(Pop(s)), FALSE, NoTok)
    ELSE Settle(Pop(s), ok, data)

\* get('/auth/me'): onRequest adds the stored auth_token
ApiCall(k) ==
    LET t == client.tasks[k] IN
    /\ t.pc = "idle"
    /\ \E p \in Procs :
          /\ ClientSlotFree(k, p)
          /\ GetMeArrives(p, client.auth)
          /\ client' = [client EXCEPT !.tasks[k] =
                           [t EXCEPT !.op = "request", !.pc = "running", !.slot = p,
                                     !.stack = <<Frame("get", client.auth, "wait")>>]]

\* a response arrives.  2xx: it is returned to the caller.  401: onError
\* calls _refreshToken, which posts the stored refresh_token through the same
\* Dio instance (or returns false when none is stored).  Any other error is
\* passed on.
ReqResponse(k) ==
    LET t == client.tasks[k]
        f == t.stack[Len(t.stack)]
        out == calls[t.slot].out
        good == Settle(Pop(t.stack), TRUE, out.refreshToken)
        bad == Settle(Pop(t.stack), FALSE, NoTok)
    IN
    /\ t.pc = "running"
    /\ f.kind \in {"get", "refresh"}
    /\ f.st = "wait"
    /\ calls[t.slot].pc = "done"
    /\ \/ /\ out.code = 200
          /\ client' = [client EXCEPT
                           !.auth = IF good.store # NoTok
                                    THEN GenerateAccessToken(good.store.userId,
                                                             good.store.iat)
                                    ELSE @,
                           !.tasks[k] =
                               [t EXCEPT !.stack = good.stack, !.slot = 0,
                                         !.result = good.result,
                                         !.pc = IF good.stack = <<>> THEN "done"
                                                ELSE "running"]]
          /\ UNCHANGED <<db, req, proc, now, users, refreshTokens, passwordResets, nextId,
                         calls, started, issuedRefresh, issuedReset, revoked, rotated,
                         redeemed>>
       \/ /\ out.code = 401
          /\ client.refresh # NoTok
          /\ t.attempts < MaxAttempts
          /\ \E p \in Procs :
                /\ ClientSlotFree(k, p)
                /\ RefreshArrives(p, client.refresh)
                /\ client' = [client EXCEPT !.tasks[k] =
                      [t EXCEPT !.attempts = @ + 1, !.slot = p,
                                !.first = IF t.attempts = 0 THEN client.refresh
                                          ELSE @,
                                !.stack = [t.stack EXCEPT ![Len(t.stack)].st =
                                                             "refreshing"]
                                          \o <<Frame("rt", NoTok, "posting"),
                                               Frame("refresh", client.refresh,
                                                     "wait")>>]]
       \/ /\ out.code # 200
          /\ ~(out.code = 401 /\ client.refresh # NoTok)
          /\ client' = [client EXCEPT !.tasks[k] =
                           [t EXCEPT !.stack = bad.stack, !.slot = 0,
                                     !.result = bad.result, !.pc = "done"]]
          /\ UNCHANGED <<db, req, proc, now, users, refreshTokens, passwordResets, nextId,
                         calls, started, issuedRefresh, issuedReset, revoked, rotated,
                         redeemed>>

\* _refreshToken after the first setString returned:
\* _prefs.setString('refresh_token', data['refreshToken'])
RefreshTokenStore(k) ==
    LET t == client.tasks[k]
        f == t.stack[Len(t.stack)]
    IN
    /\ t.pc = "running"
    /\ f.kind = "rt" /\ f.st = "store2"
    /\ client' = [client EXCEPT !.refresh = f.data,
                                !.tasks[k].stack[Len(t.stack)].st = "return"]
    /\ UNCHANGED <<db, req, proc, now, users, refreshTokens, passwordResets, nextId,
                   calls, started, issuedRefresh, issuedReset, revoked, rotated,
                   redeemed>>

\* _refreshToken returns true: onError repeats the request it handles, with
\* the auth_token now stored and the data the request had
RetryRequest(k) ==
    LET t == client.tasks[k]
        f == t.stack[Len(t.stack)]
        s == Pop(t.stack)
        c == s[Len(s)]
        tok == IF c.kind = "get" THEN client.auth ELSE c.tok
    IN
    /\ t.pc = "running"
    /\ f.kind = "rt" /\ f.st = "return"
    /\ \E p \in Procs :
          /\ ClientSlotFree(k, p)
          /\ IF c.kind = "get" THEN GetMeArrives(p, tok) ELSE RefreshArrives(p, tok)
          /\ client' = [client EXCEPT !.tasks[k] =
                [t EXCEPT !.slot = p,
                          !.retries = IF c.kind = "get" THEN @ + 1 ELSE @,
                          !.stack = [s EXCEPT ![Len(s)].st = "retrying"]
                                    \o <<Frame(c.kind, tok, "wait")>>]]

NextApi ==
    \/ Tick
    \/ \E k \in Tasks : ApiCall(k)
    \/ \E k \in Tasks : ReqResponse(k)
    \/ \E k \in Tasks : RefreshTokenStore(k)
    \/ \E k \in Tasks : RetryRequest(k)
    \/ \E p \in Procs : RefreshUpdate(p)

SpecApi == InitClient /\ [][NextApi]_vars

\* C33: a request issued through ApiService is followed by at most one
\* token refresh and at most one repetition of the request.
C33_OneRefreshOneRetry ==
    \A k \in Tasks :
        client.tasks[k].attempts <= 1 /\ client.tasks[k].retries <= 1

\* C34: when two requests of the app have each answered a 401 by posting the
\* same stored refresh_token, then once no token refresh is in progress the
\* refresh_token in the app's storage is the value of a RefreshRecord of the
\* principal.
C34_ClientKeepsCurrentCredential ==
    \A j, k \in Tasks :
        ( /\ j # k
          /\ client.tasks[j].first # NoTok
          /\ client.tasks[j].first = client.tasks[k].first
          /\ \A t \in Tasks :
                \A i \in 1..Len(client.tasks[t].stack) :
                    client.tasks[t].stack[i].kind = "rt"
                        => client.tasks[t].stack[i].st = "return" )
        => \E r \in refreshTokens :
              r.userId = client.refresh.userId /\ r.token = client.refresh

\* ------------------------------------------------------ app: AuthProvider
\* everything but the app
backend == <<db, req, proc, now, users, refreshTokens, passwordResets, nextId, calls,
             started, issuedRefresh, issuedReset, revoked, rotated, redeemed>>

\* the account the app is used with
TheUser == CHOOSE e \in Emails : TRUE

\* how a call of ApiService ends for its caller: with data, with an
\* AppException of some code, or with another exception (a response body that
\* does not have the expected shape)
AppCodes == {"UNAUTHORIZED", "SERVER_ERROR"}

Outcomes == {"ok", "thrown"} \cup AppCodes

\* an installed app is opened: SharedPreferences hold nothing, or what an
\* earlier session left
InitProvider ==
    /\ \E stored \in BOOLEAN, cached \in BOOLEAN :
          client = [NoClient EXCEPT
                       !.auth = IF stored THEN GenerateAccessToken(TheUser, 0)
                                ELSE NoTok,
                       !.refresh = IF stored THEN GenerateRefreshToken(TheUser, 0)
                                   ELSE NoTok,
                       !.cached = IF stored /\ cached THEN TheUser ELSE ""]
    /\ db = NoDb
    /\ req = NoReq
    /\ proc = Serving
    /\ now = 0
    /\ users = [e \in Emails |-> NoUser]
    /\ refreshTokens = {}
    /\ passwordResets = {}
    /\ nextId = 1
    /\ calls = [p \in Procs |-> IdleCall]
    /\ started = 0
    /\ issuedRefresh = {}
    /\ issuedReset = {}
    /\ revoked = {}
    /\ rotated = {}
    /\ redeemed = [t \in {} |-> 0]

HandleAuthErrorKeepStatus(c, code) ==
    IF code \in {"UNAUTHORIZED", "TOKEN_EXPIRED"}
    THEN [c EXCEPT !.errorMessage = "error", !.user = ""]
    ELSE [c EXCEPT !.errorMessage = "error", !.status = "error"]

\* _handleAuthError
HandleAuthError(c, code) ==
    IF code \in {"UNAUTHORIZED", "TOKEN_EXPIRED"}
    THEN [c EXCEPT !.errorMessage = "error", !.user = "", !.status = "unauthenticated"]
    ELSE [c EXCEPT !.errorMessage = "error", !.status = "error"]

\* the operation in task k moves on
At(c, k, op, pc, err) ==
    [c EXCEPT !.tasks[k].op = op, !.tasks[k].pc = pc, !.tasks[k].err = err]

\* the constructor calls _initializeAuth: loading; no stored auth_token ->
\* unauthenticated; else fetchCurrentUser is called
InitializeAuth(k) ==
    /\ client.status = "initial"
    /\ client.tasks[k].pc \in {"idle", "done"}
    /\ client' = IF client.auth = NoTok
                 THEN At([client EXCEPT !.status = "unauthenticated"],
                         k, "initializeAuth", "done", "")
                 ELSE At([client EXCEPT !.status = "loading"],
                         k, "initializeAuth", "fc_get", "")
    /\ UNCHANGED backend

\* fetchCurrentUser called by the app: get('/auth/me')
FetchCurrentUser(k) ==
    /\ client.status # "initial"
    /\ client.tasks[k].pc \in {"idle", "done"}
    /\ client' = At(client, k, "fetchCurrentUser", "fc_get", "")
    /\ UNCHANGED backend

\* get('/auth/me') returned or threw.  Data: user, authenticated, cached_user.
\* AppException: the cached user if there is a usable one, else
\* _handleAuthError.  Another exception leaves fetchCurrentUser; in
\* _initializeAuth it is caught and signOut is called.
FetchResponse(k, outcome, usable) ==
    LET t == client.tasks[k] IN
    /\ t.pc = "fc_get"
    /\ client' =
         IF outcome = "ok"
         THEN At([client EXCEPT !.user = TheUser, !.status = "authenticated",
                                !.cached = TheUser], k, t.op, "done", "")
         ELSE IF outcome \in AppCodes
         THEN IF client.cached # "" /\ usable
              THEN At([client EXCEPT !.user = client.cached,
                                     !.status = "authenticated"],
                      k, t.op, "done", "cached")
              ELSE At(HandleAuthError(client, outcome), k, t.op, "done", outcome)
         ELSE IF t.op = "initializeAuth"
         THEN At([client EXCEPT !.status = "loading"], k, t.op, "so_logout", "thrown")
         ELSE At(client, k, t.op, "done", "thrown")
    /\ UNCHANGED backend

\* signIn / signUp: loading, error cleared, post('/auth/login' | '/auth/register')
SignIn(k, op) ==
    /\ client.status # "initial"
    /\ client.tasks[k].pc \in {"idle", "done"}
    /\ client' = At([client EXCEPT !.status = "loading", !.errorMessage = ""],
                    k, op, "si_post", "")
    /\ UNCHANGED backend

\* the post returned: setString('auth_token'); or it threw: _handleAuthError
\* with the AppException, or with SIGNIN_FAILED / SIGNUP_FAILED
SignInResponse(k, outcome) ==
    LET t == client.tasks[k] IN
    /\ t.pc = "si_post"
    /\ client' =
         IF outcome = "ok"
         THEN At([client EXCEPT !.auth = GenerateAccessToken(TheUser, now)],
                 k, t.op, "si_refresh", "")
         ELSE IF outcome \in AppCodes
         THEN At(HandleAuthError(client, outcome), k, t.op, "done", outcome)
         ELSE At(HandleAuthError(client, "SIGNIN_FAILED"), k, t.op, "done", "thrown")
    /\ UNCHANGED backend

\* setString('refresh_token')
SignInStoreRefresh(k) ==
    LET t == client.tasks[k] IN
    /\ t.pc = "si_refresh"
    /\ client' = At([client EXCEPT !.refresh = GenerateRefreshToken(TheUser, now)],
                    k, t.op, "si_user", "")
    /\ UNCHANGED backend

\* _user = User.fromJson; authenticated; setString('cached_user')
SignInSetUser(k) ==
    LET t == client.tasks[k] IN
    /\ t.pc = "si_user"
    /\ client' = At([client EXCEPT !.user = TheUser, !.status = "authenticated",
                                   !.cached = TheUser], k, t.op, "done", "")
    /\ UNCHANGED backend

\* signOut: loading, post('/auth/logout')
SignOut(k) ==
    /\ client.status # "initial"
    /\ client.tasks[k].pc \in {"idle", "done"}
    /\ client' = At([client EXCEPT !.status = "loading"], k, "signOut", "so_logout", "")
    /\ UNCHANGED backend

\* the logout post returned or threw (caught): remove('auth_token')
SignOutRemoveAuth(k, failed) ==
    LET t == client.tasks[k] IN
    /\ t.pc = "so_logout"
    /\ client' = At([client EXCEPT !.auth = NoTok], k, t.op, "so_refresh",
                    IF failed THEN "logout failed" ELSE t.err)
    /\ UNCHANGED backend

\* remove('refresh_token')
SignOutRemoveRefresh(k) ==
    LET t == client.tasks[k] IN
    /\ t.pc = "so_refresh"
    /\ client' = At([client EXCEPT !.refresh = NoTok], k, t.op, "so_cached", t.err)
    /\ UNCHANGED backend

\* remove('cached_user')
SignOutRemoveCached(k) ==
    LET t == client.tasks[k] IN
    /\ t.pc = "so_cached"
    /\ client' = At([client EXCEPT !.cached = ""], k, t.op, "so_clear", t.err)
    /\ UNCHANGED backend

\* _user = null; _clearError(); unauthenticated: signOut has completed
SignOutClear(k) ==
    LET t == client.tasks[k] IN
    /\ t.pc = "so_clear"
    /\ client' = At([client EXCEPT !.user = "", !.errorMessage = "",
                                   !.status = "unauthenticated"],
                    k, t.op, "done", t.err)
    /\ UNCHANGED backend

\* updateProfile / verifyEmail: nothing without a user; else loading, error
\* cleared, put / post
UpdateProfile(k, op) ==
    /\ client.status # "initial"
    /\ client.tasks[k].pc \in {"idle", "done"}
    /\ client.user # ""
    /\ client' = At([client EXCEPT !.status = "loading", !.errorMessage = ""],
                    k, op, "up_put", "")
    /\ UNCHANGED backend

\* the call returned: user, authenticated, cached_user; an AppException goes
\* to _handleAuthError; another exception leaves the method
UpdateResponse(k, outcome) ==
    LET t == client.tasks[k] IN
    /\ t.pc = "up_put"
    /\ client' =
         IF outcome = "ok"
         THEN At([client EXCEPT !.user = TheUser, !.status = "authenticated",
                                !.cached = TheUser], k, t.op, "done", "")
         ELSE IF outcome \in AppCodes
         THEN At(HandleAuthError(client, outcome), k, t.op, "done", outcome)
         ELSE At(client, k, t.op, "done", "thrown")
    /\ UNCHANGED backend

\* deleteAccount: nothing without a user; else loading, error cleared, delete
ProviderDeleteAccount(k) ==
    /\ client.status # "initial"
    /\ client.tasks[k].pc \in {"idle", "done"}
    /\ client.user # ""
    /\ client' = At([client EXCEPT !.status = "loading", !.errorMessage = ""],
                    k, "deleteAccount", "da_delete", "")
    /\ UNCHANGED backend

\* the delete returned: signOut is called; an AppException goes to
\* _handleAuthError
DeleteResponse(k, outcome) ==
    LET t == client.tasks[k] IN
    /\ t.pc = "da_delete"
    /\ client' =
         IF outcome = "ok"
         THEN At([client EXCEPT !.status = "loading"], k, t.op, "so_logout", "")
         ELSE IF outcome \in AppCodes
         THEN At(HandleAuthError(client, outcome), k, t.op, "done", outcome)
         ELSE At(client, k, t.op, "done", "thrown")
    /\ UNCHANGED backend

\* requestPasswordReset: loading, error cleared, post('/auth/forgot-password')
RequestPasswordReset(k) ==
    /\ client.status # "initial"
    /\ client.tasks[k].pc \in {"idle", "done"}
    /\ client' = At([client EXCEPT !.status = "loading", !.errorMessage = ""],
                    k, "requestPasswordReset", "rp_post", "")
    /\ UNCHANGED backend

\* the post returned: unauthenticated; an AppException goes to
\* _handleAuthError
ResetRequestResponse(k, outcome) ==
    LET t == client.tasks[k] IN
    /\ t.pc = "rp_post"
    /\ client' =
         IF outcome = "ok"
         THEN At([client EXCEPT !.status = "unauthenticated"], k, t.op, "done", "")
         ELSE IF outcome \in AppCodes
         THEN At(HandleAuthError(client, outcome), k, t.op, "done", outcome)
         ELSE At(client, k, t.op, "done", "thrown")
    /\ UNCHANGED backend

NextProvider ==
    \/ \E k \in Tasks : InitializeAuth(k)
    \/ \E k \in Tasks : FetchCurrentUser(k)
    \/ \E k \in Tasks, o \in Outcomes, usable \in BOOLEAN : FetchResponse(k, o, usable)
    \/ \E k \in Tasks, op \in {"signIn", "signUp"} : SignIn(k, op)
    \/ \E k \in Tasks, o \in Outcomes : SignInResponse(k, o)
    \/ \E k \in Tasks : SignInStoreRefresh(k)
    \/ \E k \in Tasks : SignInSetUser(k)
    \/ \E k \in Tasks : SignOut(k)
    \/ \E k \in Tasks, failed \in BOOLEAN : SignOutRemoveAuth(k, failed)
    \/ \E k \in Tasks : SignOutRemoveRefresh(k)
    \/ \E k \in Tasks : SignOutRemoveCached(k)
    \/ \E k \in Tasks : SignOutClear(k)
    \/ \E k \in Tasks, op \in {"updateProfile", "verifyEmail"} : UpdateProfile(k, op)
    \/ \E k \in Tasks, o \in Outcomes : UpdateResponse(k, o)
    \/ \E k \in Tasks : ProviderDeleteAccount(k)
    \/ \E k \in Tasks, o \in Outcomes : DeleteResponse(k, o)
    \/ \E k \in Tasks : RequestPasswordReset(k)
    \/ \E k \in Tasks, o \in Outcomes : ResetRequestResponse(k, o)

SpecProvider == InitProvider /\ [][NextProvider]_vars

\* C35: at the step that completes signOut, status is unauthenticated, user
\* is null and auth_token, refresh_token and cached_user are absent from
\* storage, whether or not the logout call failed, also when the other
\* operation of the app is a signIn.
C35_SignOutClearsEverything ==
    [][\A k \in Tasks :
          ( /\ client.tasks[k].op = "signOut"
            /\ client.tasks[k].pc = "so_clear" /\ client'.tasks[k].pc = "done"
            /\ \A j \in Tasks \ {k} : client.tasks[j].op \in {"none", "signIn"} )
          => /\ client'.status = "unauthenticated"
             /\ client'.user = ""
             /\ client'.auth = NoTok
             /\ client'.refresh = NoTok
             /\ client'.cached = ""]_vars

\* C36: _initializeAuth without a stored auth_token ends unauthenticated
\* without an API call; with a stored token whose validation fails as
\* unauthorized, and no usable cached user, it ends with the stored tokens
\* removed and status unauthenticated.
C36_InitSignsOutOnInvalidToken ==
    [][\A k \in Tasks :
          /\ (client.status = "initial" /\ client.auth = NoTok /\ client'.status # "initial")
             => ( /\ client'.status = "unauthenticated"
                  /\ client'.tasks[k].pc \in {"idle", "done"} )
          /\ ( /\ client.tasks[k].op = "initializeAuth"
               /\ client.tasks[k].pc # "done"
               /\ client'.tasks[k].pc = "done"
               /\ client'.tasks[k].err = "UNAUTHORIZED" )
             => ( /\ client'.status = "unauthenticated"
                  /\ client'.auth = NoTok
                  /\ client'.refresh = NoTok )]_vars

\* C37: whenever the provider's status is authenticated, its user is not
\* null.
C37_AuthenticatedHasUser ==
    client.status = "authenticated" => client.user # ""

\* the status is authenticated, with the user set, while a signOut is
\* between its awaits and has already removed the auth_token
C37_Witness ==
    /\ client.status = "authenticated"
    /\ client.user # ""
    /\ \E k \in Tasks : client.tasks[k].pc \in {"so_refresh", "so_cached", "so_clear"}
    /\ client.auth = NoTok

\* ------------------------------------------------- Prisma: soft deletion
softDeleteModels == {"User", "Post", "Comment"}

\* if (action === 'findUnique' || action === 'findFirst'): findFirst with
\* where = { ...params.args.where, deletedAt: null }
FindRewrite(p) ==
    IF p.action \in {"findUnique", "findFirst"}
    THEN [p EXCEPT !.action = "findFirst",
                   !.args.where.given = TRUE,
                   !.args.where.deletedAt = "null"]
    ELSE p

\* if (action === 'findMany'): deletedAt: null unless where has a deletedAt
FindManyRewrite(p) ==
    IF p.action = "findMany"
    THEN IF p.args.where.given
         THEN IF p.args.where.deletedAt = "undefined"
              THEN [p EXCEPT !.args.where.deletedAt = "null"]
              ELSE p
         ELSE [p EXCEPT !.args.where.given = TRUE, !.args.where.deletedAt = "null"]
    ELSE p

\* if (action === 'update')
UpdateRewrite(p) ==
    IF p.action = "update"
    THEN [p EXCEPT !.action = "updateMany",
                   !.args.where.given = TRUE,
                   !.args.where.deletedAt = "null"]
    ELSE p

\* if (action === 'delete'): data = { deletedAt: new Date() }
DeleteRewrite(p, t) ==
    IF p.action = "delete"
    THEN [p EXCEPT !.action = "update",
                   !.args.data = [NoData EXCEPT !.deletedAt = {t}]]
    ELSE p

\* if (action === 'deleteMany')
DeleteManyRewrite(p, t) ==
    IF p.action = "deleteMany"
    THEN [p EXCEPT !.action = "updateMany",
                   !.args.data = [NoData EXCEPT !.deletedAt = {t}]]
    ELSE p

SoftDeleteMiddlewareUpdateUnguarded(p, t) ==
    IF p.model \in softDeleteModels
    THEN DeleteManyRewrite(DeleteRewrite(FindManyRewrite(FindRewrite(p)), t), t)
    ELSE p

\* the middleware installed by setupMiddleware: the five if statements run
\* one after the other on the same params, which then go to next(params)
SoftDeleteMiddleware(p, t) ==
    IF p.model \in softDeleteModels
    THEN DeleteManyRewrite(
             DeleteRewrite(UpdateRewrite(FindManyRewrite(FindRewrite(p))), t), t)
    ELSE p

\* a row satisfies a where
Matches(r, w) ==
    /\ w.id # 0 => r.id = w.id
    /\ w.deletedAt = "null" => r.deletedAt = {}
    /\ w.deletedAt = "notNull" => r.deletedAt # {}

\* a row after data was written to it
ApplyData(r, d) ==
    [id |-> r.id,
     name |-> IF d.name = "undefined" THEN r.name ELSE d.name,
     deletedAt |-> IF d.deletedAt = {} THEN r.deletedAt ELSE d.deletedAt]

\* next(params): what the query engine does with the params it receives
Execute(p, rows) ==
    LET found == {r \in rows : Matches(r, p.args.where)}
        first == {r \in found : \A o \in found : r.id <= o.id}
        written == {ApplyData(r, p.args.data) : r \in found}
    IN
    CASE p.action \in {"findUnique", "findFirst"} ->
            [rows |-> rows, result |-> first, error |-> ""]
      [] p.action = "findMany" ->
            [rows |-> rows, result |-> found, error |-> ""]
      [] p.action \in {"update", "delete"} /\ found = {} ->
            [rows |-> rows, result |-> {}, error |-> "P2025"]
      [] p.action \in {"update", "updateMany"} /\ ~(p.action = "update" /\ found = {}) ->
            [rows |-> (rows \ found) \cup written, result |-> written, error |-> ""]
      [] p.action \in {"delete", "deleteMany"} /\ ~(p.action = "delete" /\ found = {}) ->
            [rows |-> rows \ found, result |-> found, error |-> ""]
      [] p.action = "create" ->
            IF \E r \in rows : r.id = p.args.data.id
            THEN [rows |-> rows, result |-> {}, error |-> "P2002"]
            ELSE [rows |-> rows \cup {ApplyData([id |-> p.args.data.id, name |-> "",
                                                 deletedAt |-> {}], p.args.data)},
                  result |-> {}, error |-> ""]

\* the where arguments callers pass: by id or not, with or without a filter
\* on deletedAt
Wheres ==
    {NoWhere} \cup [given : {TRUE}, id : {0} \cup RowIds,
                    deletedAt : {"undefined", "null", "notNull"}]

\* a table of a soft-delete model, or of a model the middleware leaves
\* alone, with the rows created so far
InitPrisma ==
    /\ \E m \in softDeleteModels \cup {"RefreshToken"}, rows \in SUBSET Rows :
          /\ \A r, o \in rows : r.id = o.id => r = o
          /\ db = [NoDb EXCEPT !.model = m, !.rows = rows]
    /\ req = NoReq
    /\ client = NoClient
    /\ proc = Serving
    /\ now = 0
    /\ users = [e \in Emails |-> NoUser]
    /\ refreshTokens = {}
    /\ passwordResets = {}
    /\ nextId = 1
    /\ calls = [p \in Procs |-> IdleCall]
    /\ started = 0
    /\ issuedRefresh = {}
    /\ issuedReset = {}
    /\ revoked = {}
    /\ rotated = {}
    /\ redeemed = [t \in {} |-> 0]

\* prisma.<model>.<action>(args): the call passes the middleware and is
\* executed
PrismaCall(action, args) ==
    LET p == SoftDeleteMiddleware([model |-> db.model, action |-> action,
                                   args |-> args], now)
        e == Execute(p, db.rows)
    IN
    /\ db' = [db EXCEPT !.rows = e.rows,
                        !.last = [action |-> action, args |-> args,
                                  result |-> e.result, error |-> e.error]]
    /\ UNCHANGED <<req, client, proc, now, users, refreshTokens, passwordResets,
                   nextId, calls, started, issuedRefresh, issuedReset, revoked,
                   rotated, redeemed>>

\* the calls a caller makes: findUnique, update and delete name one row
NextPrisma ==
    \/ Tick
    \/ \E w \in {x \in Wheres : x.id # 0} :
          PrismaCall("findUnique", [NoArgs EXCEPT !.where = w])
    \/ \E w \in Wheres : PrismaCall("findFirst", [NoArgs EXCEPT !.where = w])
    \/ \E w \in Wheres : PrismaCall("findMany", [NoArgs EXCEPT !.where = w])
    \/ \E w \in {x \in Wheres : x.id # 0} :
          PrismaCall("update", [NoArgs EXCEPT !.where = w, !.data.name = "b"])
    \/ \E w \in Wheres :
          PrismaCall("updateMany", [NoArgs EXCEPT !.where = w, !.data.name = "b"])
    \/ \E w \in {x \in Wheres : x.id # 0} :
          PrismaCall("delete", [NoArgs EXCEPT !.where = w])
    \/ \E w \in Wheres : PrismaCall("deleteMany", [NoArgs EXCEPT !.where = w])
    \/ \E r \in Rows :
          PrismaCall("create", [NoArgs EXCEPT !.data.id = r.id, !.data.name = r.name])

SpecPrisma == InitPrisma /\ [][NextPrisma]_vars

\* C38: on a soft-delete model, a delete or deleteMany leaves every row in
\* the table and sets deletedAt on the rows it names; a findUnique, findFirst
\* or findMany whose where has no deletedAt returns no row with deletedAt
\* set; an update leaves every row with deletedAt set as it was.
C38_SoftDeleteHidesRows ==
    [][(db' # db /\ db.model \in softDeleteModels) =>
         LET q == db'.last
             w == q.args.where
         IN
         /\ q.action \in {"delete", "deleteMany"} =>
               /\ \A r \in db.rows : \E s \in db'.rows : s.id = r.id
               /\ \A r \in db.rows :
                     Matches(r, w) =>
                         \E s \in db'.rows : s.id = r.id /\ s.deletedAt # {}
         /\ ( /\ q.action \in {"findUnique", "findFirst", "findMany"}
              /\ w.deletedAt = "undefined" ) =>
               \A r \in q.result : r.deletedAt = {}
         /\ q.action = "update" =>
               \A r \in db.rows : r.deletedAt # {} => r \in db'.rows]_vars

\* a findMany without a deletedAt filter on a soft-delete model returned
\* rows, and left out a row of the table that a delete had marked
C38_Witness ==
    /\ db.model \in softDeleteModels
    /\ db.last.action = "findMany"
    /\ db.last.args.where.deletedAt = "undefined"
    /\ db.last.result # {}
    /\ \E r \in db.rows :
          /\ r.deletedAt # {}
          /\ Matches(r, db.last.args.where)
          /\ r \notin db.last.result
====
